---- MODULE Spec2Model ----
(***************************************************************************)
(* A model of partitura's match-line classes and the MatchFile aggregate   *)
(* (partitura/io/matchfile_base.py), of the performance feature            *)
(* extractors (partitura/musicanalysis/performance_features.py) and of the *)
(* MIDI import (partitura/io/importmidi.py).                               *)
(*                                                                         *)
(* Python objects are records: cls is the class, version the version tag,  *)
(* d the instance attributes that hold field values, snote / note the      *)
(* constituent lines of a composite line.  A call either returns a value   *)
(* or raises: its outcome is a record [exc, val], exc = "" for a return.   *)
(***************************************************************************)
EXTENDS Integers, Sequences, FiniteSets, TLC

VARIABLES
    given,      \* the list last passed to MatchFile(lines)
    built,      \* "none", "ok" (an aggregate exists) or the exception raised
    lines,      \* MatchFile.lines of the aggregate
    ret,        \* [op, exc, val]: the last aggregate operation and its outcome
    ltext,      \* the text last handed to a line parser
    lobj,       \* the line object under study
    lret,       \* [op, exc, val]: the last line operation and its outcome
    m_score,    \* the matched score the extractors share, one row per note
    unique_onset_idxs,  \* the onset groups the extractors share
    matched,    \* (m_score, unique_onset_idxs) as compute_matched_score made them
    ran,        \* the extractors run on the shared inputs so far
    fret        \* [op, arg, exc, val]: the last feature operation and its outcome

vars == <<given, built, lines, ret, ltext, lobj, lret,
          m_score, unique_onset_idxs, matched, ran, fret>>

\* the variables of the feature extractors, before any score is matched
FeatInit ==
    /\ m_score = <<>>
    /\ unique_onset_idxs = <<>>
    /\ matched = <<>>
    /\ ran = <<>>
    /\ fret = [op |-> "", arg |-> <<>>, exc |-> "", val |-> <<>>]

FeatUntouched == UNCHANGED <<m_score, unique_onset_idxs, matched, ran, fret>>

-----------------------------------------------------------------------------
(* Bounds of the model *)

\* the longest list of lines handed to MatchFile(lines)
MaxLines == 3

-----------------------------------------------------------------------------
(* Python values, tagged with their type *)

NoneV == [t |-> "NoneType", i |-> 0, j |-> 0, s |-> "", l |-> <<>>]
IntV(n) == [t |-> "int", i |-> n, j |-> 0, s |-> "", l |-> <<>>]
\* a float, held in tenths
FloatV(n) == [t |-> "float", i |-> n, j |-> 0, s |-> "", l |-> <<>>]
StrV(x) == [t |-> "str", i |-> 0, j |-> 0, s |-> x, l |-> <<>>]
ListV(xs) == [t |-> "list", i |-> 0, j |-> 0, s |-> "", l |-> xs]
FractionalSymbolicDuration(n, dn) ==
    [t |-> "FractionalSymbolicDuration", i |-> n, j |-> dn, s |-> "", l |-> <<>>]

\* the outcome of a call
Return(v) == [exc |-> "", val |-> v]
Raise(e) == [exc |-> e, val |-> <<>>]
\* an exception whose message is a template filled with args
RaiseMsg(e, args) == [exc |-> e, val |-> args]

Range(f) == {f[x] : x \in DOMAIN f}
MapSeq(Op(_), sq) == [k \in 1..Len(sq) |-> Op(sq[k])]
Min2(a, b) == IF a < b THEN a ELSE b
SetMin(S) == CHOOSE m \in S : \A o \in S : m <= o

-----------------------------------------------------------------------------
(* Versions *)

Version(major, minor, patch) == <<major, minor, patch>>
Versions == {Version(1, 0, 0), Version(0, 5, 0)}

-----------------------------------------------------------------------------
(* Line classes *)

NoObj == [cls |-> "None"]
NoAttrs == [n \in {} |-> NoneV]

\* MatchLine.__init__ : only the version is set
MatchLine(cls, version) ==
    [cls |-> cls, version |-> version, d |-> NoAttrs,
     field_names |-> <<>>, field_types |-> <<>>,
     snote |-> NoObj, note |-> NoObj]

\* getattr(obj, name) for a field name
HasAttr(obj, name) == name \in DOMAIN obj.d
GetAttr(obj, name) ==
    IF HasAttr(obj, name) THEN Return(obj.d[name]) ELSE Raise("AttributeError")

InfoFieldNames == <<"Attribute", "Value">>

BaseInfoLine(version, attribute, value, value_type) ==
    [MatchLine("BaseInfoLine", version) EXCEPT
        !.field_names = InfoFieldNames,
        !.field_types = <<{"str"}, {value_type}>>,
        !.d = [Attribute |-> attribute, Value |-> value]]

SnoteFieldNames ==
    <<"Anchor", "NoteName", "Modifier", "Octave", "Measure", "Beat", "Offset",
      "Duration", "OnsetInBeats", "OffsetInBeats", "ScoreAttributesList">>

SnoteFieldTypes ==
    <<{"str"}, {"str"}, {"int", "NoneType"}, {"int", "NoneType"}, {"int"},
      {"int"}, {"FractionalSymbolicDuration"}, {"FractionalSymbolicDuration"},
      {"float"}, {"float"}, {"list"}>>

\* the keyword arguments of BaseSnoteLine.__init__, in order
SnoteKwargNames ==
    <<"anchor", "note_name", "modifier", "octave", "measure", "beat", "offset",
      "duration", "onset_in_beats", "offset_in_beats", "score_attributes_list">>

BaseSnoteLine(version, kw) ==
    [MatchLine("BaseSnoteLine", version) EXCEPT
        !.field_names = SnoteFieldNames,
        !.field_types = SnoteFieldTypes,
        !.d = [Anchor |-> kw.anchor, NoteName |-> kw.note_name,
               Modifier |-> kw.modifier, Octave |-> kw.octave,
               Measure |-> kw.measure, Beat |-> kw.beat,
               Offset |-> kw.offset, Duration |-> kw.duration,
               OnsetInBeats |-> kw.onset_in_beats,
               OffsetInBeats |-> kw.offset_in_beats,
               ScoreAttributesList |-> kw.score_attributes_list]]

NoteFieldNames == <<"Id", "Onset", "Offset", "Velocity">>

NoteFieldTypes == <<{"str"}, {"int"}, {"float"}, {"float"}, {"int"}>>

BaseNoteLine(version, id, midi_pitch, onset, offset, velocity) ==
    [MatchLine("BaseNoteLine", version) EXCEPT
        !.field_names = NoteFieldNames,
        !.field_types = NoteFieldTypes,
        !.d = [Id |-> id, MidiPitch |-> midi_pitch, Onset |-> onset,
               Offset |-> offset, Velocity |-> velocity]]

\* the pair line keeps its constituents and sets no field attribute
BaseSnoteNoteLine(version, snote, note) ==
    [MatchLine("BaseSnoteNoteLine", version) EXCEPT
        !.snote = snote,
        !.note = note,
        !.field_names = snote.field_names \o note.field_names,
        !.field_types = snote.field_types \o note.field_types]

\* for fn in self.field_names: setattr(self, fn, getattr(constituent, fn))
CopiedAttrs(part) == [fn \in Range(part.field_names) |-> part.d[fn]]

BaseDeletionLine(version, snote) ==
    [MatchLine("BaseDeletionLine", version) EXCEPT
        !.snote = snote,
        !.field_names = snote.field_names,
        !.field_types = snote.field_types,
        !.d = CopiedAttrs(snote)]

BaseInsertionLine(version, note) ==
    [MatchLine("BaseInsertionLine", version) EXCEPT
        !.note = note,
        !.field_names = note.field_names,
        !.field_types = note.field_types,
        !.d = CopiedAttrs(note)]

\* a per-event meta line, a class of another module of the package
MatchMeta(version, attribute, value, bar, time_in_beats) ==
    [MatchLine("MatchMeta", version) EXCEPT
        !.field_names = <<"Attribute", "Value", "Bar", "TimeInBeats">>,
        !.field_types = <<{"str"}, {"str"}, {"int"}, {"float"}>>,
        !.d = [Attribute |-> attribute, Value |-> value, Bar |-> bar,
               TimeInBeats |-> time_in_beats]]

\* classes that contain score notes / performed notes
snote_classes == {"BaseSnoteLine", "BaseSnoteNoteLine", "BaseDeletionLine"}
note_classes == {"BaseNoteLine", "BaseSnoteNoteLine", "BaseInsertionLine"}

\* the names bound in the module's namespace when a method body runs
ModuleGlobals ==
    {"MatchError", "MatchLine", "BaseInfoLine", "BaseSnoteLine", "BaseNoteLine",
     "BaseSnoteNoteLine", "BaseDeletionLine", "BaseInsertionLine",
     "snote_classes", "note_classes", "MatchFile", "re", "np"}

IsInstance(x, classes) == x.cls \in classes

-----------------------------------------------------------------------------
(* Match-line text.  A text is a sequence of segments; a segment is either *)
(* a call head(arg, ..., arg) or literal characters.  The arguments are    *)
(* the comma-free tokens the patterns capture with [^,]+ .                 *)

Seg(head, args) == [head |-> head, args |-> args]
Lit(chars) == [head |-> chars, args |-> <<>>]

\* str(x).upper() on the note names of the model
Upper(tok) == CASE tok = "e" -> "E" [] tok = "c" -> "C" [] OTHER -> tok

\* partitura.utils.music.ALTER_SIGNS, the keys the model uses
ALTER_SIGNS(alter) == CASE alter = 1 -> "#" [] alter = -1 -> "b" [] OTHER -> ""

\* the token to value conversions of partitura.io.matchfile_utils and
\* partitura.utils.music, on the tokens of the model
interpret_as_string(tok) == StrV(tok)
interpret_as_int(tok) ==
    CASE tok = "0" -> IntV(0) [] tok = "1" -> IntV(1) [] tok = "2" -> IntV(2)
      [] tok = "4" -> IntV(4) [] tok = "49" -> IntV(49) [] tok = "64" -> IntV(64)
      [] OTHER -> NoneV
interpret_as_float(tok) ==
    CASE tok = "-1.0" -> FloatV(-10) [] tok = "0.0" -> FloatV(0)
      [] tok = "0.5" -> FloatV(5) [] tok = "1.0" -> FloatV(10)
      [] tok = "1.5" -> FloatV(15) [] OTHER -> NoneV
interpret_as_fractional(tok) ==
    CASE tok = "0" -> FractionalSymbolicDuration(0, 1)
      [] tok = "1/4" -> FractionalSymbolicDuration(1, 4)
      [] tok = "1/8" -> FractionalSymbolicDuration(1, 8)
      [] OTHER -> NoneV
interpret_as_list(tok) ==
    CASE tok = "staff1" -> ListV(<<"staff1">>)
      [] tok = "staff1,fermata" -> ListV(<<"staff1", "fermata">>)
      [] OTHER -> ListV(<<"">>)
\* (step, alter, octave) of ensure_pitch_spelling_format
ensure_pitch_spelling_format(step, alter, octave) ==
    [step |-> StrV(Upper(step)),
     alter |-> CASE alter = "n" -> IntV(0) [] alter = "#" -> IntV(1)
                 [] alter = "b" -> IntV(-1) [] OTHER -> NoneV,
     octave |-> IF octave = "-" THEN NoneV ELSE interpret_as_int(octave)]

\* the value to token conversions of partitura.io.matchfile_utils
format_string(v) == v.s
format_int(v) ==
    IF v.t = "NoneType" THEN "-"
    ELSE CASE v.i = 0 -> "0" [] v.i = 1 -> "1" [] v.i = 2 -> "2" [] v.i = 4 -> "4"
           [] v.i = 49 -> "49" [] v.i = 64 -> "64" [] OTHER -> "?"
format_float_unconstrained(v) ==
    CASE v.i = -10 -> "-1.0" [] v.i = 0 -> "0.0" [] v.i = 5 -> "0.5"
      [] v.i = 10 -> "1.0" [] v.i = 15 -> "1.5" [] OTHER -> "?"
format_fractional(v) ==
    IF v.j = 1 THEN format_int(IntV(v.i))
    ELSE CASE v.i = 1 /\ v.j = 4 -> "1/4" [] v.i = 1 /\ v.j = 8 -> "1/8"
           [] OTHER -> "?"
format_list(v) ==
    CASE v.l = <<"staff1">> -> "[staff1]"
      [] v.l = <<"staff1", "fermata">> -> "[staff1,fermata]"
      [] OTHER -> "[]"

\* BaseSnoteLine.format_fun
FormatNoteName(v) == Upper(v.s)
\* a variant of the Modifier formatter: no literal "n" for an alter of 0
FormatModifierNoNatural(v) == ALTER_SIGNS(v.i)
FormatModifier(v) == IF v.t = "int" /\ v.i = 0 THEN "n" ELSE ALTER_SIGNS(v.i)

\* BaseSnoteLine.out_pattern filled with the formatted fields
SnoteOut(o) ==
    <<Seg("snote",
          <<format_string(o.d.Anchor), FormatNoteName(o.d.NoteName),
            FormatModifier(o.d.Modifier), format_int(o.d.Octave),
            format_int(o.d.Measure), format_int(o.d.Beat),
            format_fractional(o.d.Offset), format_fractional(o.d.Duration),
            format_float_unconstrained(o.d.OnsetInBeats),
            format_float_unconstrained(o.d.OffsetInBeats),
            format_list(o.d.ScoreAttributesList)>>)>>

\* "info({Attribute},{Value})."
InfoOut(o) ==
    <<Seg("info", <<format_string(o.d.Attribute), format_string(o.d.Value)>>)>>

\* the performed-note text of the concrete note classes:
\* "note({Id},{MidiPitch},{Onset},{Offset},{Velocity})."
NoteOut(o) ==
    <<Seg("note",
          <<format_string(o.d.Id), format_int(o.d.MidiPitch),
            format_float_unconstrained(o.d.Onset),
            format_float_unconstrained(o.d.Offset), format_int(o.d.Velocity)>>)>>

\* the meta text of the concrete meta class:
\* "meta({Attribute},{Value},{Bar},{TimeInBeats})."
MetaOut(o) ==
    <<Seg("meta",
          <<format_string(o.d.Attribute), format_string(o.d.Value),
            format_int(o.d.Bar), format_float_unconstrained(o.d.TimeInBeats)>>)>>

\* MatchLine.matchline: the out_pattern of the class, filled
SimpleMatchline(o) ==
    CASE o.cls = "BaseSnoteLine" -> SnoteOut(o)
      [] o.cls = "BaseNoteLine" -> NoteOut(o)
      [] o.cls = "MatchMeta" -> MetaOut(o)
      [] OTHER -> InfoOut(o)

matchline(o) ==
    CASE o.cls = "BaseSnoteNoteLine" ->
            SimpleMatchline(o.snote) \o <<Lit("-")>> \o SimpleMatchline(o.note)
      [] o.cls = "BaseDeletionLine" ->
            SimpleMatchline(o.snote) \o <<Lit("-deletion.")>>
      [] o.cls = "BaseInsertionLine" ->
            <<Lit("insertion-")>> \o SimpleMatchline(o.note)
      [] OTHER -> SimpleMatchline(o)

-----------------------------------------------------------------------------
(* Parsing *)

\* the text between the brackets of "[...]", for the bracketed tokens
IsBracketed(tok) == tok \in {"[]", "[staff1]", "[staff1,fermata]"}
Unbracket(tok) ==
    CASE tok = "[staff1]" -> "staff1"
      [] tok = "[staff1,fermata]" -> "staff1,fermata"
      [] OTHER -> ""

\* BaseSnoteLine.pattern on one segment: eleven groups, the first ten
\* non-empty, the last one between brackets
SnotePatternMatches(sg) ==
    /\ sg.head = "snote"
    /\ Len(sg.args) = 11
    /\ \A k \in 1..10 : sg.args[k] # ""
    /\ IsBracketed(sg.args[11])

\* cls.pattern.search(matchline, pos): the first match at or after pos,
\* 0 for no match
SnotePatternSearch(text, pos) ==
    LET hits == {k \in (pos + 1)..Len(text) : SnotePatternMatches(text[k])}
    IN  IF hits = {} THEN 0 ELSE SetMin(hits)

\* the dict built from the groups of a match
SnoteKwargs(g) ==
    LET anchor == interpret_as_string(g[1])
        psf == ensure_pitch_spelling_format(g[2], g[3], g[4])
    IN  [anchor |-> interpret_as_string(anchor.s),
         note_name |-> psf.step,
         modifier |-> psf.alter,
         octave |-> psf.octave,
         measure |-> interpret_as_int(g[5]),
         beat |-> interpret_as_int(g[6]),
         offset |-> interpret_as_fractional(g[7]),
         duration |-> interpret_as_fractional(g[8]),
         onset_in_beats |-> interpret_as_float(g[9]),
         offset_in_beats |-> interpret_as_float(g[10]),
         score_attributes_list |-> interpret_as_list(Unbracket(g[11]))]

\* a variant of prepare_kwargs_from_matchline: without a match it returns
\* a dict of None values
SnotePrepareKwargsNoRaise(text, pos) ==
    LET k == SnotePatternSearch(text, pos)
    IN  IF k # 0 THEN Return(SnoteKwargs(text[k].args))
        ELSE Return([name \in Range(SnoteKwargNames) |-> NoneV])

\* BaseSnoteLine.prepare_kwargs_from_matchline
SnotePrepareKwargs(text, pos) ==
    LET k == SnotePatternSearch(text, pos)
    IN  IF k # 0 THEN Return(SnoteKwargs(text[k].args))
        ELSE Raise("MatchError")

\* from_matchline of the concrete score-note class:
\* cls(version=version, **cls.prepare_kwargs_from_matchline(matchline))
SnoteFromMatchline(text, version) ==
    LET r == SnotePrepareKwargs(text, 0)
    IN  IF r.exc # "" THEN r ELSE Return(BaseSnoteLine(version, r.val))

\* from_matchline of the concrete performed-note class
NotePatternMatches(sg) ==
    sg.head = "note" /\ Len(sg.args) = 5 /\ \A k \in 1..5 : sg.args[k] # ""

NoteFromMatchline(text, version) ==
    LET hits == {k \in 1..Len(text) : NotePatternMatches(text[k])}
        g == text[SetMin(hits)].args
    IN  IF hits = {} THEN Raise("MatchError")
        ELSE Return(BaseNoteLine(version, interpret_as_string(g[1]),
                                 interpret_as_int(g[2]), interpret_as_float(g[3]),
                                 interpret_as_float(g[4]), interpret_as_int(g[5])))

\* from_matchline of the concrete info class, on BaseInfoLine.pattern
InfoPatternMatches(sg) ==
    sg.head = "info" /\ Len(sg.args) = 2 /\ \A k \in 1..2 : sg.args[k] # ""

InfoFromMatchline(text, version) ==
    LET hits == {k \in 1..Len(text) : InfoPatternMatches(text[k])}
        g == text[SetMin(hits)].args
    IN  IF hits = {} THEN Raise("MatchError")
        ELSE Return(BaseInfoLine(version, interpret_as_string(g[1]),
                                 interpret_as_string(g[2]), "str"))

\* BaseSnoteNoteLine.prepare_kwargs_from_matchline
SnoteNotePrepareKwargs(text, version) ==
    LET snote == SnoteFromMatchline(text, version)
        note == NoteFromMatchline(text, version)
    IN  IF snote.exc # "" THEN snote
        ELSE IF note.exc # "" THEN note
        ELSE Return([version |-> version, snote |-> snote.val, note |-> note.val])

\* BaseDeletionLine.prepare_kwargs_from_matchline
DeletionPrepareKwargs(text, version) ==
    LET snote == SnoteFromMatchline(text, version)
    IN  IF snote.exc # "" THEN snote
        ELSE Return([version |-> version, snote |-> snote.val])

\* BaseInsertionLine.prepare_kwargs_from_matchline
InsertionPrepareKwargs(text, version) ==
    LET note == NoteFromMatchline(text, version)
    IN  IF note.exc # "" THEN note
        ELSE Return([version |-> version, note |-> note.val])

\* from_matchline of the concrete composite classes: cls(**kwargs)
SnoteNoteFromMatchline(text, version) ==
    LET r == SnoteNotePrepareKwargs(text, version)
    IN  IF r.exc # "" THEN r
        ELSE Return(BaseSnoteNoteLine(r.val.version, r.val.snote, r.val.note))

DeletionFromMatchline(text, version) ==
    LET r == DeletionPrepareKwargs(text, version)
    IN  IF r.exc # "" THEN r
        ELSE Return(BaseDeletionLine(r.val.version, r.val.snote))

InsertionFromMatchline(text, version) ==
    LET r == InsertionPrepareKwargs(text, version)
    IN  IF r.exc # "" THEN r
        ELSE Return(BaseInsertionLine(r.val.version, r.val.note))

LineClasses ==
    {"BaseInfoLine", "BaseSnoteLine", "BaseNoteLine", "BaseSnoteNoteLine",
     "BaseDeletionLine", "BaseInsertionLine"}

from_matchline(cls, text, version) ==
    CASE cls = "BaseSnoteLine" -> SnoteFromMatchline(text, version)
      [] cls = "BaseNoteLine" -> NoteFromMatchline(text, version)
      [] cls = "BaseSnoteNoteLine" -> SnoteNoteFromMatchline(text, version)
      [] cls = "BaseDeletionLine" -> DeletionFromMatchline(text, version)
      [] cls = "BaseInsertionLine" -> InsertionFromMatchline(text, version)
      [] OTHER -> InfoFromMatchline(text, version)

-----------------------------------------------------------------------------
(* check_types *)

\* zip(self.field_names, self.field_types) stops at the shorter tuple
ZipLen(o) == Min2(Len(o.field_names), Len(o.field_types))

\* MatchLine.check_types
MatchLineCheckTypes(o) ==
    IF \E k \in 1..ZipLen(o) : ~HasAttr(o, o.field_names[k])
    THEN Raise("AttributeError")
    ELSE Return(\A k \in 1..ZipLen(o) :
                    o.d[o.field_names[k]].t \in o.field_types[k])

\* BaseSnoteNoteLine.check_types, and the inherited one for the other classes
check_types(o) ==
    IF o.cls = "BaseSnoteNoteLine"
    THEN LET snote_types_are_correct == MatchLineCheckTypes(o.snote)
             note_types_are_correct == MatchLineCheckTypes(o.note)
         IN  IF snote_types_are_correct.exc # "" THEN snote_types_are_correct
             ELSE IF note_types_are_correct.exc # "" THEN note_types_are_correct
             ELSE Return(snote_types_are_correct.val /\ note_types_are_correct.val)
    ELSE MatchLineCheckTypes(o)

-----------------------------------------------------------------------------
(* The texts and values the line operations are run on *)

SnoteSeg(name, mod, oct, attrs) ==
    Seg("snote", <<"1-1", name, mod, oct, "0", "1", "0", "1/4", "-1.0", "0.0", attrs>>)
NoteSeg(id) == Seg("note", <<id, "64", "0.5", "1.5", "49">>)

SnoteSegs ==
    {SnoteSeg(name, mod, oct, attrs) :
        name \in {"E", "e"}, mod \in {"n", "#"}, oct \in {"4", "-"},
        attrs \in {"[staff1,fermata]", "[]"}}
NoteSegs == {NoteSeg("n0"), NoteSeg("n1")}
InfoSegs == {Seg("info", <<"matchFileVersion", "1.0.0">>),
             Seg("info", <<"timeSignature", "3/4">>)}
\* segments no pattern matches: a field is missing, or empty
BadSegs == {Seg("snote", <<"1-1", "E", "n", "4", "0", "1", "0", "1/4", "-1.0", "0.0">>),
            Seg("snote", <<"1-1", "", "n", "4", "0", "1", "0", "1/4", "-1.0", "0.0", "[]">>),
            Seg("note", <<"n0", "64", "0.5", "1.5">>)}

Texts ==
    {<<sn>> : sn \in SnoteSegs}
    \cup {<<Lit("#"), sn>> : sn \in {SnoteSeg("E", "n", "4", "[staff1]")}}
    \cup {<<nt>> : nt \in NoteSegs}
    \cup {<<inf>> : inf \in InfoSegs}
    \cup {<<sn, Lit("-"), nt>> : sn \in SnoteSegs, nt \in NoteSegs}
    \cup {<<sn, Lit("-deletion.")>> : sn \in SnoteSegs}
    \cup {<<Lit("insertion-"), nt>> : nt \in NoteSegs}
    \cup {<<bad>> : bad \in BadSegs}
    \cup {<<bad, Lit("-"), NoteSeg("n0")>> : bad \in BadSegs}
    \cup {<<SnoteSeg("E", "n", "4", "[]"), Lit("-"), bad>> : bad \in BadSegs}
    \cup {<<bad, Lit("-deletion.")>> : bad \in BadSegs}
    \cup {<<Lit("insertion-"), bad>> : bad \in BadSegs}

NoText == <<>>

\* values handed to the constructors, well typed or not
DefaultSnoteKwargs == SnoteKwargs(SnoteSeg("E", "n", "4", "[staff1]").args)
NewSnoteKwargs ==
    {[DefaultSnoteKwargs EXCEPT !.octave = oct, !.measure = meas] :
        oct \in {IntV(4), NoneV, StrV("4")}, meas \in {IntV(0), FloatV(0)}}
NewNoteValues == {IntV(1), FloatV(15), StrV("n0")}

NoRet == [op |-> "", arg |-> "", exc |-> "", val |-> <<>>]

-----------------------------------------------------------------------------
(* Line operations *)

FileUntouched == UNCHANGED <<given, built, lines, ret>>

\* each run studies one line: a text is parsed, or a line is constructed,
\* when none has been yet
Fresh == lret.op = ""

\* cls.from_matchline(text, version)
FromMatchline(cls, text, version) ==
    LET r == from_matchline(cls, text, version)
    IN  /\ Fresh
        /\ ltext' = text
        /\ lobj' = IF r.exc = "" THEN r.val ELSE NoObj
        /\ lret' = [op |-> "from_matchline", arg |-> cls, exc |-> r.exc, val |-> <<>>]
        /\ FileUntouched
        /\ FeatUntouched

\* BaseSnoteLine.prepare_kwargs_from_matchline(text)
PrepareKwargs(text) ==
    LET r == SnotePrepareKwargs(text, 0)
    IN  /\ Fresh
        /\ ltext' = text
        /\ lobj' = NoObj
        /\ lret' = [op |-> "prepare_kwargs", arg |-> "BaseSnoteLine",
                    exc |-> r.exc, val |-> r.val]
        /\ FileUntouched
        /\ FeatUntouched

\* BaseSnoteLine(version, **kwargs)
NewSnote(version, kw) ==
    /\ Fresh
    /\ ltext' = NoText
    /\ lobj' = BaseSnoteLine(version, kw)
    /\ lret' = [NoRet EXCEPT !.op = "init"]
    /\ FileUntouched
    /\ FeatUntouched

\* BaseNoteLine(version, id, midi_pitch, onset, offset, velocity)
NewNote(version, id, onset, offset, velocity) ==
    /\ Fresh
    /\ ltext' = NoText
    /\ lobj' = BaseNoteLine(version, id, IntV(64), onset, offset, velocity)
    /\ lret' = [NoRet EXCEPT !.op = "init"]
    /\ FileUntouched
    /\ FeatUntouched

\* BaseSnoteNoteLine(version, snote, note) around a constructed score note
\* (the composite parsers make the composites of parsed lines)
NewSnoteNote(version, note) ==
    /\ lobj.cls = "BaseSnoteLine"
    /\ ltext = NoText
    /\ lobj' = BaseSnoteNoteLine(version, lobj, note)
    /\ lret' = [NoRet EXCEPT !.op = "init"]
    /\ UNCHANGED ltext
    /\ FileUntouched
    /\ FeatUntouched

\* BaseDeletionLine(version, snote)
NewDeletion(version) ==
    /\ lobj.cls = "BaseSnoteLine"
    /\ ltext = NoText
    /\ lobj' = BaseDeletionLine(version, lobj)
    /\ lret' = [NoRet EXCEPT !.op = "init"]
    /\ UNCHANGED ltext
    /\ FileUntouched
    /\ FeatUntouched

\* BaseInsertionLine(version, note)
NewInsertion(version) ==
    /\ lobj.cls = "BaseNoteLine"
    /\ ltext = NoText
    /\ lobj' = BaseInsertionLine(version, lobj)
    /\ lret' = [NoRet EXCEPT !.op = "init"]
    /\ UNCHANGED ltext
    /\ FileUntouched
    /\ FeatUntouched

\* line.matchline, of a line that was parsed
Matchline ==
    /\ lobj # NoObj
    /\ ltext # NoText
    /\ lret' = [op |-> "matchline", arg |-> "", exc |-> "", val |-> matchline(lobj)]
    /\ UNCHANGED <<ltext, lobj>>
    /\ FileUntouched
    /\ FeatUntouched

\* type(line).from_matchline(line.matchline, line.version)
Reparse ==
    /\ lobj # NoObj
    /\ ltext # NoText
    /\ LET r == from_matchline(lobj.cls, matchline(lobj), lobj.version)
       IN  lret' = [op |-> "reparse", arg |-> lobj.cls, exc |-> r.exc, val |-> r.val]
    /\ UNCHANGED <<ltext, lobj>>
    /\ FileUntouched
    /\ FeatUntouched

\* line.check_types()
CheckTypes ==
    /\ lobj # NoObj
    /\ LET r == check_types(lobj)
       IN  lret' = [op |-> "check_types", arg |-> "", exc |-> r.exc, val |-> r.val]
    /\ UNCHANGED <<ltext, lobj>>
    /\ FileUntouched
    /\ FeatUntouched

\* getattr(line, fn) for a name of line.field_names
GetField(fn) ==
    /\ lobj # NoObj
    /\ fn \in Range(lobj.field_names)
    /\ LET r == GetAttr(lobj, fn)
       IN  lret' = [op |-> "getattr", arg |-> fn, exc |-> r.exc, val |-> r.val]
    /\ UNCHANGED <<ltext, lobj>>
    /\ FileUntouched
    /\ FeatUntouched

AllFieldNames == Range(SnoteFieldNames) \cup Range(NoteFieldNames) \cup Range(InfoFieldNames)

InitLine ==
    /\ given = <<>>
    /\ built = "none"
    /\ lines = <<>>
    /\ ret = NoRet
    /\ ltext = NoText
    /\ lobj = NoObj
    /\ lret = NoRet
    /\ FeatInit

NextLine ==
    \/ \E v \in Versions, kw \in NewSnoteKwargs : NewSnote(v, kw)
    \/ \E v \in Versions, id \in {StrV("n0"), IntV(1)},
          on \in NewNoteValues, off \in NewNoteValues, vel \in NewNoteValues :
            NewNote(v, id, on, off, vel)
    \/ \E v \in Versions, on \in NewNoteValues, vel \in NewNoteValues :
            NewSnoteNote(v, BaseNoteLine(v, StrV("n0"), IntV(64), on, FloatV(15), vel))
    \/ \E v \in Versions : NewDeletion(v)
    \/ \E v \in Versions : NewInsertion(v)
    \/ \E cls \in LineClasses, text \in Texts, v \in Versions : FromMatchline(cls, text, v)
    \/ \E text \in Texts : PrepareKwargs(text)
    \/ Matchline
    \/ Reparse
    \/ CheckTypes
    \/ \E fn \in AllFieldNames : GetField(fn)

SpecLine == InitLine /\ [][NextLine]_vars

-----------------------------------------------------------------------------
(* MatchFile *)

\* a variant of same_version: any() in the place of all()
same_version_any(ls) == \E k \in 1..Len(ls) : ls[k].version = ls[1].version

\* all([line.version == lines[0].version for line in lines])
same_version(ls) == \A k \in 1..Len(ls) : ls[k].version = ls[1].version

\* np.array(lines): a one-dimensional array of the objects, in list order
np_array(ls) == [k \in 1..Len(ls) |-> ls[k]]

\* MatchFile.__init__: the lines stored, or the exception
MatchFileInit(ls) ==
    IF ~same_version(ls) THEN Raise("ValueError") ELSE Return(np_array(ls))

\* the lines of self.lines that are instances of one of the classes
Instances(ls, classes) == SelectSeq(ls, LAMBDA x : IsInstance(x, classes))
SnoteOf(x) == x.snote
NoteOf(x) == x.note
PairOf(x) == <<x.snote, x.note>>

\* MatchFile.note_pairs
note_pairs(ls) == Return(MapSeq(PairOf, Instances(ls, {"BaseSnoteNoteLine"})))

\* MatchFile.notes: x.note is read on every instance of note_classes
notes(ls) ==
    LET sel == Instances(ls, note_classes)
    IN  IF \E k \in 1..Len(sel) : sel[k].note = NoObj THEN Raise("AttributeError")
        ELSE Return(MapSeq(NoteOf, sel))

\* MatchFile.snotes: x.snote is read on every instance of snote_classes
snotes(ls) ==
    LET sel == Instances(ls, snote_classes)
    IN  IF \E k \in 1..Len(sel) : sel[k].snote = NoObj THEN Raise("AttributeError")
        ELSE Return(MapSeq(SnoteOf, sel))

\* [f(x) for x in self.lines if isinstance(x, Name)]: Name is looked up when
\* the condition is first evaluated, that is, when there is a line
InstancesOfGlobal(ls, name) ==
    IF ls = <<>> THEN Return(<<>>)
    ELSE IF name \notin ModuleGlobals THEN Raise("NameError")
    ELSE Return(Instances(ls, {name}))

\* MatchFile.insertions
insertions(ls) ==
    LET sel == InstancesOfGlobal(ls, "MatchInsertionNote")
    IN  IF sel.exc # "" THEN sel ELSE Return(MapSeq(NoteOf, sel.val))

\* MatchFile.deletions
deletions(ls) ==
    LET sel == InstancesOfGlobal(ls, "MatchSnoteDeletion")
    IN  IF sel.exc # "" THEN sel ELSE Return(MapSeq(SnoteOf, sel.val))

\* MatchFile._info
InfoLines(ls) == Instances(ls, {"BaseInfoLine"})

\* MatchFile.info(attribute), for a given attribute: the Value of the first
\* info line with that Attribute, or None
info(ls, attribute) ==
    LET inf == InfoLines(ls)
        hits == {k \in 1..Len(inf) : inf[k].d.Attribute = StrV(attribute)}
    IN  IF hits = {} THEN NoneV ELSE inf[SetMin(hits)].d.Value

\* MatchFile.first_onset
first_onset(ls) ==
    LET sn == snotes(ls)
    IN  IF sn.exc # "" THEN sn
        ELSE IF sn.val = <<>> THEN Raise("ValueError")
        ELSE Return(FloatV(SetMin({sn.val[k].d.OnsetInBeats.i : k \in 1..Len(sn.val)})))

\* MatchFile.first_bar: n.Bar is read on every score note
first_bar(ls) ==
    LET sn == snotes(ls)
    IN  IF sn.exc # "" THEN sn
        ELSE IF \E k \in 1..Len(sn.val) : ~HasAttr(sn.val[k], "Bar")
             THEN Raise("AttributeError")
        ELSE IF sn.val = <<>> THEN Raise("ValueError")
        ELSE Return(IntV(SetMin({sn.val[k].d.Bar.i : k \in 1..Len(sn.val)})))

\* tspat.findall(text) as (numerator, denominator) pairs
TsFindAll(text) ==
    CASE text = "3/4" -> <<<<3, 4>>>>
      [] text = "4/4" -> <<<<4, 4>>>>
      [] text = "3/4,4/4" -> <<<<3, 4>>, <<4, 4>>>>
      [] OTHER -> <<>>

\* MatchFile._time_sig_lines
TimeSigLinesRaw(ls) ==
    LET sel == InstancesOfGlobal(ls, "MatchMeta")
    IN  IF sel.exc # "" THEN sel
        ELSE Return(SelectSeq(sel.val, LAMBDA x : HasAttr(x, "Attribute")
                                       /\ x.d.Attribute = StrV("timeSignature")))

\* MatchFile.time_sig_lines
time_sig_lines(ls) ==
    LET ml == TimeSigLinesRaw(ls)
    IN  IF ml.exc # "" THEN ml
        ELSE IF Len(ml.val) # 0 THEN ml
        ELSE IF "parse_matchline" \notin ModuleGlobals THEN Raise("NameError")
        ELSE IF first_bar(ls).exc # "" THEN first_bar(ls)
        ELSE IF first_onset(ls).exc # "" THEN first_onset(ls)
        ELSE Return(<<MatchMeta(Version(1, 0, 0), StrV("timeSignature"),
                                info(ls, "timeSignature"), first_bar(ls).val,
                                first_onset(ls).val)>>)

\* the sorted list of a set of (onset, bar, signature) triples, by onset
\* then bar
IsSortedTs(sq) ==
    \A a, b \in 1..Len(sq) :
        a < b => \/ sq[a][1] < sq[b][1]
                 \/ sq[a][1] = sq[b][1] /\ sq[a][2] <= sq[b][2]
SortedTs(S) ==
    CHOOSE sq \in [1..Cardinality(S) -> S] : Range(sq) = S /\ IsSortedTs(sq)

\* "ensure that all consecutive time signatures are different": the loop
\* over the sorted list, which starts from its first entry
RECURSIVE TsDedup(_, _)
TsDedup(acc, rest) ==
    IF rest = <<>> THEN acc
    ELSE IF Head(rest)[3] # acc[Len(acc)][3]
         THEN TsDedup(Append(acc, Head(rest)), Tail(rest))
         ELSE TsDedup(acc, Tail(rest))

TsEntry(line) ==
    <<line.d.TimeInBeats.i, line.d.Bar.i, TsFindAll(line.d.Value.s)[1]>>

\* MatchFile.time_signatures
time_signatures(ls) ==
    LET ts == info(ls, "timeSignature")
        m == TsFindAll(ts.s)
        tsl == time_sig_lines(ls)
        glob == IF Len(m) > 0
                THEN {<<first_onset(ls).val.i, first_bar(ls).val.i, m[1]>>}
                ELSE {}
        all == glob \cup {TsEntry(tsl.val[k]) : k \in 1..Len(tsl.val)}
    IN  IF ts.t # "str" THEN Raise("TypeError")
        ELSE IF Len(m) > 0 /\ first_onset(ls).exc # "" THEN first_onset(ls)
        ELSE IF Len(m) > 0 /\ first_bar(ls).exc # "" THEN first_bar(ls)
        ELSE IF tsl.exc # "" THEN tsl
        ELSE IF all = {} THEN Raise("IndexError")
        ELSE Return(TsDedup(<<SortedTs(all)[1]>>, SortedTs(all)))

\* kspat.search(text): the groups step1, alter1, mode1, step2, alter2, mode2,
\* or no match
NoMatch == <<>>
KsSearch(text) ==
    CASE text = "C Maj/A min" -> <<"C", "", "Maj", "A", "", "min">>
      [] text = "C Maj" -> <<"C", "", "Maj", "", "", "">>
      [] text = "F# min" -> <<"F", "#", "min", "", "", "">>
      [] text = "C dor" -> <<"C", "", "dor", "", "", "">>
      [] OTHER -> NoMatch

\* str.lower() on the mode tokens
Lower(tok) ==
    CASE tok = "Maj" -> "maj" [] tok = "MAJ" -> "maj" [] tok = "Min" -> "min"
      [] tok = "MAJOR" -> "major" [] tok = "Major" -> "major"
      [] tok = "MINOR" -> "minor" [] tok = "Minor" -> "minor" [] tok = "M" -> "m"
      [] tok = "Dor" -> "dor"
      [] OTHER -> tok

\* MatchFile._format_key_signature: step + alter_sign + mode
format_key_signature(step, alter_sign, mode) ==
    IF Lower(mode) \in {"maj", "", "major"} THEN Return(<<step, alter_sign, "">>)
    ELSE IF Lower(mode) \in {"min", "m", "minor"} THEN Return(<<step, alter_sign, "m">>)
    ELSE RaiseMsg("ValueError", <<mode>>)

\* MatchFile.key_sig_lines
key_sig_lines(ls) ==
    LET ks_info == SelectSeq(InfoLines(ls),
                             LAMBDA x : x.d.Attribute = StrV("keySignature"))
        sel == InstancesOfGlobal(ls, "MatchMeta")
    IN  IF sel.exc # "" THEN sel
        ELSE Return(ks_info \o SelectSeq(sel.val,
                        LAMBDA x : HasAttr(x, "Attribute")
                                   /\ x.d.Attribute = StrV("keySignature")))

\* one pass of the loop of key_signatures: the (t, b, keysig) of a line
KeySigOf(ls, ksl) ==
    LET g == KsSearch(ksl.d.Value.s)
        k1 == format_key_signature(g[1], g[2], g[3])
        k2 == format_key_signature(g[4], g[5], g[6])
    IN  IF "MatchInfo" \notin ModuleGlobals THEN Raise("NameError")
        ELSE IF g = NoMatch THEN Raise("AttributeError")
        ELSE IF k1.exc # "" THEN k1
        ELSE IF g[4] # "" /\ k2.exc # "" THEN k2
        ELSE Return(<<ksl.d.TimeInBeats.i, ksl.d.Bar.i,
                      IF g[4] # "" THEN <<k1.val, k2.val>> ELSE <<k1.val>>>>)

\* the loop that keeps a key signature when it differs from the last kept
RECURSIVE KsDedup(_, _)
KsDedup(acc, rest) ==
    IF rest = <<>> THEN acc
    ELSE IF Head(rest)[3] # acc[Len(acc)][3]
         THEN KsDedup(Append(acc, Head(rest)), Tail(rest))
         ELSE KsDedup(acc, Tail(rest))

\* MatchFile.key_signatures
key_signatures(ls) ==
    LET ksl == key_sig_lines(ls)
        each == [k \in 1..Len(ksl.val) |-> KeySigOf(ls, ksl.val[k])]
        bad == {k \in 1..Len(ksl.val) : each[k].exc # ""}
        keysigs == [k \in 1..Len(ksl.val) |-> each[k].val]
    IN  IF ksl.exc # "" THEN ksl
        ELSE IF bad # {} THEN each[SetMin(bad)]
        ELSE IF Len(keysigs) > 0 THEN Return(KsDedup(<<keysigs[1]>>, keysigs))
        ELSE Return(<<>>)

\* MatchFile(None), the first statement of from_lines: the comprehension
\* of __init__ iterates over None
MatchFileInitNone == Raise("TypeError")

\* MatchFile.from_lines: the aggregate returned, as (lines, name)
from_lines(ls, name) ==
    LET matchfile == MatchFileInitNone
    IN  IF matchfile.exc # "" THEN matchfile
        ELSE Return([lines |-> np_array(ls), name |-> name])

\* a variant of write: the lines are written last to first
write_reversed(ls) == Return([k \in 1..Len(ls) |-> matchline(ls[Len(ls) + 1 - k])])

\* MatchFile.write: the lines written to the file, in the order written
write(ls) == Return(MapSeq(matchline, ls))

-----------------------------------------------------------------------------
(* The lines the aggregate is built from *)

V1 == Version(1, 0, 0)
V0 == Version(0, 5, 0)
Snote1 == BaseSnoteLine(V1, SnoteKwargs(SnoteSeg("E", "n", "4", "[staff1]").args))
Snote2 == BaseSnoteLine(V1, [SnoteKwargs(SnoteSeg("E", "#", "4", "[]").args)
                                EXCEPT !.anchor = StrV("2-1"),
                                       !.onset_in_beats = FloatV(0),
                                       !.offset_in_beats = FloatV(10)])
Note1 == BaseNoteLine(V1, StrV("n0"), IntV(64), FloatV(5), FloatV(15), IntV(49))
Note2 == BaseNoteLine(V1, StrV("n1"), IntV(64), FloatV(10), FloatV(15), IntV(64))

FileLines ==
    {BaseSnoteNoteLine(V1, Snote1, Note1),
     BaseDeletionLine(V1, Snote2),
     BaseInsertionLine(V1, Note2),
     BaseInfoLine(V1, StrV("timeSignature"), StrV("3/4"), "str"),
     BaseInfoLine(V1, StrV("keySignature"), StrV("C Maj/A min"), "str"),
     BaseInfoLine(V1, StrV("keySignature"), StrV("C dor"), "str"),
     MatchMeta(V1, StrV("keySignature"), StrV("C Maj/A min"), IntV(0), FloatV(-10)),
     Snote1,
     Note1,
     BaseSnoteNoteLine(V0, Snote2, Note2)}

RECURSIVE SeqsUpTo(_, _)
SeqsUpTo(S, n) ==
    IF n = 0 THEN {<<>>}
    ELSE LET shorter == SeqsUpTo(S, n - 1)
         IN  shorter \cup {Append(sq, x) : sq \in shorter, x \in S}

FileInputs == SeqsUpTo(FileLines, MaxLines)

-----------------------------------------------------------------------------
(* Aggregate operations *)

LineUntouched == UNCHANGED <<ltext, lobj, lret>>

\* the inputs of an operation that is called once in a run: none once the
\* call was made
OnceOnly(fresh, inputs) == IF fresh THEN inputs ELSE {}

\* each run makes one aggregate, with the constructor or with from_lines
NoCallYet == ret.op = ""

\* MatchFile(lines)
Construct(ls) ==
    LET r == MatchFileInit(ls)
    IN  /\ built = "none"
        /\ NoCallYet
        /\ given' = ls
        /\ built' = IF r.exc = "" THEN "ok" ELSE r.exc
        /\ lines' = r.val
        /\ ret' = [op |-> "init", arg |-> "", exc |-> r.exc, val |-> <<>>]
        /\ LineUntouched
        /\ FeatUntouched

\* a method or property of the aggregate is run; the attribute lines is not
\* assigned by any of them
Call(op, r) ==
    /\ built = "ok"
    /\ ret' = [op |-> op, arg |-> "", exc |-> r.exc, val |-> r.val]
    /\ UNCHANGED <<given, built, lines>>
    /\ LineUntouched
    /\ FeatUntouched

\* MatchFile.from_lines(ls, name): an aggregate exists when it returns
FromLines(ls, name) ==
    LET r == from_lines(ls, name)
    IN  /\ built = "none"
        /\ NoCallYet
        /\ given' = IF r.exc = "" THEN ls ELSE given
        /\ built' = IF r.exc = "" THEN "ok" ELSE built
        /\ lines' = IF r.exc = "" THEN r.val.lines ELSE lines
        /\ ret' = [op |-> "from_lines", arg |-> <<ls, name>>,
                    exc |-> r.exc, val |-> r.val]
        /\ LineUntouched
        /\ FeatUntouched

\* self._format_key_signature(step, alter_sign, mode); the method reads
\* nothing of self, and is run on the aggregates of at most one line
FormatKeySignature(step, alter_sign, mode) ==
    LET r == format_key_signature(step, alter_sign, mode)
    IN  /\ built = "ok"
        /\ Len(lines) <= 1
        /\ ret' = [op |-> "_format_key_signature", arg |-> <<step, alter_sign, mode>>,
                    exc |-> r.exc, val |-> r.val]
        /\ UNCHANGED <<given, built, lines>>
        /\ LineUntouched
        /\ FeatUntouched

\* the mode tokens _format_key_signature is given
ModeTokens ==
    {"maj", "Maj", "MAJ", "major", "Major", "MAJOR", "", "min", "Min", "m", "M",
     "minor", "Minor", "MINOR", "dor", "Dor"}

Write == Call("write", write(lines))
ReadNotePairs == Call("note_pairs", note_pairs(lines))
ReadNotes == Call("notes", notes(lines))
ReadSnotes == Call("snotes", snotes(lines))
ReadInsertions == Call("insertions", insertions(lines))
ReadDeletions == Call("deletions", deletions(lines))
ReadTimeSignatures == Call("time_signatures", time_signatures(lines))
ReadKeySignatures == Call("key_signatures", key_signatures(lines))

Init ==
    /\ given = <<>>
    /\ built = "none"
    /\ lines = <<>>
    /\ ret = NoRet
    /\ ltext = NoText
    /\ lobj = NoObj
    /\ lret = NoRet
    /\ FeatInit

Next ==
    \/ \E ls \in OnceOnly(NoCallYet, FileInputs) : Construct(ls)
    \/ \E ls \in OnceOnly(NoCallYet, FileInputs), name \in {"", "perf"} :
          FromLines(ls, name)
    \/ \E step \in {"C", "F"}, alter_sign \in {"", "#"}, mode \in ModeTokens :
          FormatKeySignature(step, alter_sign, mode)
    \/ Write
    \/ ReadNotePairs
    \/ ReadNotes
    \/ ReadSnotes
    \/ ReadInsertions
    \/ ReadDeletions
    \/ ReadTimeSignatures
    \/ ReadKeySignatures

Spec == Init /\ [][Next]_vars

-----------------------------------------------------------------------------
(* Properties of the aggregate, under Spec *)

\* C1: MatchFile(lines) raises ValueError exactly when some line's version
\* differs from the first line's version; otherwise it succeeds and stores
\* the given lines in the given order.
C1_VersionInvariant ==
    built # "none" =>
        /\ built \in {"ok", "ValueError"}
        /\ built = "ValueError" <=>
               \E k \in 1..Len(given) : given[k].version # given[1].version
        /\ built = "ok" =>
               /\ Len(lines) = Len(given)
               /\ \A k \in 1..Len(given) : lines[k] = given[k]

\* a list whose third line alone has another version is refused
C1_Witness ==
    /\ built = "ValueError"
    /\ Len(given) = 3
    /\ given[2].version = given[1].version
    /\ given[3].version # given[1].version

\* C3: write emits one output line per stored line, the i-th being the
\* matchline text of the i-th stored line: nothing is dropped, duplicated
\* or reordered.
C3_WriteKeepsOrder ==
    ret.op = "write" =>
        /\ ret.exc = ""
        /\ Len(ret.val) = Len(lines)
        /\ \A k \in 1..Len(lines) : ret.val[k] = matchline(lines[k])

\* three lines are written, the first stored twice, and the second differs
C3_Witness ==
    /\ ret.op = "write"
    /\ Len(lines) = 3
    /\ lines[1] = lines[3]
    /\ lines[1].cls = "BaseSnoteNoteLine"
    /\ lines[2].cls = "BaseDeletionLine"
    /\ ret.val[1] # ret.val[2]

\* the score note / performed note a line bears
ScoreNoteOf(x) == IF x.cls = "BaseSnoteLine" THEN x ELSE x.snote
PerformedNoteOf(x) == IF x.cls = "BaseNoteLine" THEN x ELSE x.note

\* C7: snotes returns, in stored order, one score note for each line that
\* bears one (bare score-note line, pair, deletion); notes one performed
\* note for each line that bears one (bare note line, pair, insertion);
\* note_pairs the (snote, note) of each pair line.
C7_NoteViews ==
    /\ ret.op = "snotes" =>
           /\ ret.exc = ""
           /\ ret.val = MapSeq(ScoreNoteOf, Instances(lines, snote_classes))
    /\ ret.op = "notes" =>
           /\ ret.exc = ""
           /\ ret.val = MapSeq(PerformedNoteOf, Instances(lines, note_classes))
    /\ ret.op = "note_pairs" =>
           /\ ret.exc = ""
           /\ ret.val = MapSeq(PairOf, Instances(lines, {"BaseSnoteNoteLine"}))

\* C8: insertions returns the performed notes of the stored insertion
\* lines and deletions the score notes of the stored deletion lines, in
\* stored order; a pair line contributes to neither.
C8_InsertionsDeletions ==
    /\ ret.op = "insertions" /\ (\E k \in 1..Len(lines) : lines[k].cls = "BaseInsertionLine") =>
           /\ ret.exc = ""
           /\ ret.val = MapSeq(NoteOf, Instances(lines, {"BaseInsertionLine"}))
    /\ ret.op = "deletions" /\ (\E k \in 1..Len(lines) : lines[k].cls = "BaseDeletionLine") =>
           /\ ret.exc = ""
           /\ ret.val = MapSeq(SnoteOf, Instances(lines, {"BaseDeletionLine"}))

HasInfo(ls, attribute) ==
    \E k \in 1..Len(ls) : /\ HasAttr(ls[k], "Attribute")
                          /\ ls[k].d.Attribute = StrV(attribute)

\* C9: for an aggregate with a timeSignature info line and a pair line,
\* time_signatures returns (onset, bar, (numerator, denominator)) triples
\* sorted by onset, no two adjacent entries with the same signature, the
\* info line's signature among them.
C9_TimeSignatures ==
    /\ ret.op = "time_signatures"
    /\ HasInfo(lines, "timeSignature")
    /\ \E k \in 1..Len(lines) : lines[k].cls = "BaseSnoteNoteLine"
    => /\ ret.exc = ""
       /\ \A k \in 1..(Len(ret.val) - 1) :
              /\ ret.val[k][1] <= ret.val[k + 1][1]
              /\ ret.val[k][3] # ret.val[k + 1][3]
       /\ \E k \in 1..Len(ret.val) : ret.val[k][3] = <<3, 4>>

\* C10: for an aggregate with a keySignature line, key_signatures returns
\* (onset, bar, key) triples ordered by onset, no two adjacent entries
\* with the same key description; "C Maj/A min" gives a description of two
\* keys.
C10_KeySignatures ==
    ret.op = "key_signatures" /\ HasInfo(lines, "keySignature")
    => /\ ret.exc = ""
       /\ Len(ret.val) >= 1
       /\ \A k \in 1..(Len(ret.val) - 1) :
              /\ ret.val[k][1] <= ret.val[k + 1][1]
              /\ ret.val[k][3] # ret.val[k + 1][3]
       /\ \A k \in 1..Len(ret.val) : Len(ret.val[k][3]) \in {1, 2}

\* the mode tokens of a major key and of a minor key, in any letter case
MajorTokens == {"maj", "Maj", "MAJ", "major", "Major", "MAJOR", ""}
MinorTokens == {"min", "Min", "m", "M", "minor", "Minor", "MINOR"}

\* the mode tokens of the key description of a line
ModesOf(x) ==
    LET g == KsSearch(x.d.Value.s)
    IN  IF g = NoMatch THEN {}
        ELSE IF g[4] # "" THEN {g[3], g[6]} ELSE {g[3]}

\* C11: _format_key_signature maps maj, major and the empty token (any
\* letter case) to step+alter and min, m, minor to step+alter+"m"; any
\* other mode token raises ValueError naming the token, and key_signatures
\* raises that ValueError for a key-signature line with such a token.
C11_KeyModeTokens ==
    /\ ret.op = "_format_key_signature" =>
           IF ret.arg[3] \in MajorTokens
           THEN ret.exc = "" /\ ret.val = <<ret.arg[1], ret.arg[2], "">>
           ELSE IF ret.arg[3] \in MinorTokens
           THEN ret.exc = "" /\ ret.val = <<ret.arg[1], ret.arg[2], "m">>
           ELSE ret.exc = "ValueError" /\ ret.val = <<ret.arg[3]>>
    /\ ret.op = "key_signatures"
       /\ (\E k \in 1..Len(lines) :
              /\ HasAttr(lines[k], "Attribute")
              /\ lines[k].d.Attribute = StrV("keySignature")
              /\ ModesOf(lines[k]) \ (MajorTokens \cup MinorTokens) # {})
       => ret.exc = "ValueError"

\* the part of C11 about _format_key_signature alone
FormatKeySignatureTokens ==
    ret.op = "_format_key_signature" =>
        IF ret.arg[3] \in MajorTokens
        THEN ret.exc = "" /\ ret.val = <<ret.arg[1], ret.arg[2], "">>
        ELSE IF ret.arg[3] \in MinorTokens
        THEN ret.exc = "" /\ ret.val = <<ret.arg[1], ret.arg[2], "m">>
        ELSE ret.exc = "ValueError" /\ ret.val = <<ret.arg[3]>>

\* C12: from_lines(lines, name) returns an aggregate whose stored lines are
\* the given lines in the given order and whose name is the given name.
C12_FromLines ==
    ret.op = "from_lines" =>
        /\ ret.exc = ""
        /\ ret.val.lines = ret.arg[1]
        /\ ret.val.name = ret.arg[2]
        /\ lines = ret.arg[1]

-----------------------------------------------------------------------------
(* Properties of the lines, under SpecLine *)

\* the text has exactly the layout of the class's out_pattern
IsLineOf(cls, text) ==
    CASE cls = "BaseSnoteLine" -> Len(text) = 1 /\ SnotePatternMatches(text[1])
      [] cls = "BaseNoteLine" -> Len(text) = 1 /\ NotePatternMatches(text[1])
      [] cls = "BaseSnoteNoteLine" ->
            /\ Len(text) = 3
            /\ SnotePatternMatches(text[1])
            /\ text[2] = Lit("-")
            /\ NotePatternMatches(text[3])
      [] cls = "BaseDeletionLine" ->
            Len(text) = 2 /\ SnotePatternMatches(text[1]) /\ text[2] = Lit("-deletion.")
      [] cls = "BaseInsertionLine" ->
            Len(text) = 2 /\ text[1] = Lit("insertion-") /\ NotePatternMatches(text[2])
      [] OTHER -> Len(text) = 1 /\ InfoPatternMatches(text[1])

\* the text with the note name of its score note in upper case
UpperNames(text) ==
    [k \in 1..Len(text) |->
        IF SnotePatternMatches(text[k])
        THEN [text[k] EXCEPT !.args[2] = Upper(@)]
        ELSE text[k]]

Composites == {"BaseSnoteNoteLine", "BaseDeletionLine", "BaseInsertionLine"}

\* C4: parsing a score-note text returns all eleven fields when the text
\* matches the pattern and raises MatchError when it does not; a composite
\* parser raises its constituent's MatchError and builds no line then.
C4_ParseAllOrMatchError ==
    /\ lret.op = "prepare_kwargs" =>
           IF \E k \in 1..Len(ltext) : SnotePatternMatches(ltext[k])
           THEN lret.exc = "" /\ DOMAIN lret.val = Range(SnoteKwargNames)
           ELSE lret.exc = "MatchError"
    /\ lret.op = "from_matchline" /\ lret.arg \in Composites =>
           LET needs_snote == lret.arg \in {"BaseSnoteNoteLine", "BaseDeletionLine"}
               needs_note == lret.arg \in {"BaseSnoteNoteLine", "BaseInsertionLine"}
               snote_fails == ~\E k \in 1..Len(ltext) : SnotePatternMatches(ltext[k])
               note_fails == ~\E k \in 1..Len(ltext) : NotePatternMatches(ltext[k])
           IN  IF (needs_snote /\ snote_fails) \/ (needs_note /\ note_fails)
               THEN lret.exc = "MatchError" /\ lobj = NoObj
               ELSE /\ lret.exc = ""
                    /\ lobj.cls = lret.arg
                    /\ needs_snote => DOMAIN lobj.snote.d = Range(SnoteFieldNames)
                    /\ needs_note => lobj.note.cls = "BaseNoteLine"

\* the pair parser is given a text whose score note lacks a field
C4_Witness ==
    /\ lret.op = "from_matchline"
    /\ lret.arg = "BaseSnoteNoteLine"
    /\ Len(ltext) = 3
    /\ ltext[1].head = "snote"
    /\ NotePatternMatches(ltext[3])
    /\ lret.exc = "MatchError"
    /\ lobj = NoObj

\* the constituent that holds a field of a composite line
ConstituentOf(o, fn) ==
    IF o.snote # NoObj /\ fn \in Range(o.snote.field_names) THEN o.snote ELSE o.note

\* C5: for every composite line and every name of its field_names, reading
\* the field on the composite returns what reading it on the constituent
\* returns.
C5_TransparentComposition ==
    lret.op = "getattr" /\ lobj.cls \in Composites =>
        /\ lret.exc = ""
        /\ lret.val = ConstituentOf(lobj, lret.arg).d[lret.arg]

\* the types the claim declares for the fields of a line
ClaimedNoteTypes ==
    [Id |-> {"str"}, Onset |-> {"float"}, Offset |-> {"float"}, Velocity |-> {"int"}]

AllOfDeclaredType(o) ==
    IF o.cls \in {"BaseNoteLine", "BaseInsertionLine"}
    THEN \A fn \in Range(NoteFieldNames) : o.d[fn].t \in ClaimedNoteTypes[fn]
    ELSE \A k \in 1..Len(o.field_names) : o.d[o.field_names[k]].t \in o.field_types[k]

\* C6: check_types returns True iff every field of field_names holds a
\* value of its declared type (a pair: iff both constituents pass), the
\* declared types of a performed-note line being Id: str, Onset: float,
\* Offset: float, Velocity: int.
C6_CheckTypes ==
    lret.op = "check_types" =>
        /\ lret.exc = ""
        /\ lret.val = IF lobj.cls = "BaseSnoteNoteLine"
                      THEN AllOfDeclaredType(lobj.snote) /\ AllOfDeclaredType(lobj.note)
                      ELSE AllOfDeclaredType(lobj)

-----------------------------------------------------------------------------
(* Performance features.  Score times are in beats, performed times in     *)
(* hundredths of a second.  A number of a feature table is a fraction n/d  *)
(* with d > 0, a NaN, an infinity, or a finite number whose value the      *)
(* model does not compute (a correlation, a standard deviation, a fit);    *)
(* the rounding of the f4 columns is not modelled.                         *)

\* the longest matched score the extractors are run on
MaxNotes == 3
\* the most extractor runs on one matched score
MaxRuns == 2

\* one second, in the unit of the performed times
OneSecond == 100

Num(n, d) == [k |-> "num", n |-> n, d |-> d]
NaN == [k |-> "nan", n |-> 0, d |-> 1]
Inf == [k |-> "inf", n |-> 0, d |-> 1]
Finite == [k |-> "finite", n |-> 0, d |-> 1]
Zero == Num(0, 1)

\* a = b and a <= b for fractions
EqNum(a, b) == a.k = "num" /\ b.k = "num" /\ a.n * b.d = b.n * a.d
LessEq(a, b) == a.n * b.d <= b.n * a.d
\* min(a, b) of Python: b only when b < a
MinNum(a, b) == IF LessEq(a, b) THEN a ELSE b

SetMax(S) == CHOOSE m \in S : \A o \in S : o <= m

RECURSIVE SortInts(_)
SortInts(S) == IF S = {} THEN <<>> ELSE <<SetMin(S)>> \o SortInts(S \ {SetMin(S)})

\* a row of the matched score, with no dynamics marking at it
Row(onset, duration, p_onset, p_duration, pitch, velocity, voice) ==
    [onset |-> onset, duration |-> duration, p_onset |-> p_onset,
     p_duration |-> p_duration, pitch |-> pitch, velocity |-> velocity,
     voice |-> voice, constant_dyn |-> "N/A"]

\* the rows the matched scores are made of: three notes of a chord played
\* at 1.00, 1.02 and 1.05 s, and two notes of the next beat played 1.6 s
\* apart, one of them before the chord
NoteRows ==
    {Row(0, 1, 100, 50, 60, 64, 1),
     Row(0, 1, 102, 200, 64, 70, 1),
     Row(0, 2, 105, 50, 67, 60, 2),
     Row(1, 1, 250, 20, 62, 64, 1),
     Row(1, 1, 90, 30, 72, 80, 1)}

Scores == SeqsUpTo(NoteRows, MaxNotes) \ {<<>>}

\* the onset groups encode_tempo returns with return_u_onset_idx: for each
\* score onset, in ascending order, the indices of the rows at that onset
get_unique_onset_idxs(ms) ==
    LET u == SortInts({ms[k].onset : k \in 1..Len(ms)})
    IN  [i \in 1..Len(u) |-> SortInts({k \in 1..Len(ms) : ms[k].onset = u[i]})]

\* onsetwise_to_notewise: the value of its group, for every note
onsetwise_to_notewise(vals, idxs) ==
    LET n == Cardinality(UNION {Range(idxs[i]) : i \in 1..Len(idxs)})
    IN  [k \in 1..n |-> vals[CHOOSE i \in 1..Len(idxs) : k \in Range(idxs[i])]]

\* what an extractor hands back: the feature table, the other entries of
\* the returned dict, and the arrays of the caller as the call leaves them
Table(names, rows) == [names |-> names, rows |-> rows]
Result(features, extras, ms, idxs) ==
    [features |-> features, extras |-> extras,
     shared |-> [m_score |-> ms, unique_onset_idxs |-> idxs]]

\* a column holding a value the model does not compute
FiniteRow(names) == [c \in Range(names) |-> Finite]

(* Asynchrony *)

INTERVAL_MAP(itv) ==
    CASE itv = 0 -> "U" [] itv \in {1, 11} -> "m2m7" [] itv \in {2, 10} -> "M2M7"
      [] itv \in {3, 9} -> "m3m6" [] itv \in {4, 8} -> "M3M6" [] itv = 5 -> "P4"
      [] itv = 6 -> "TT" [] OTHER -> "P5"

AsyncNames == <<"delta", "pitch_cor", "vel_cor", "pitch_vel_cor", "voice_std">>

\* a variant of the delta of a group: the spread is not capped
AsyncDeltaUncapped(onset_times) ==
    Num(SetMax(onset_times) - SetMin(onset_times), OneSecond)

\* delta = min(onset_times.max() - onset_times.min(), 1)
AsyncDelta(onset_times) ==
    MinNum(Num(SetMax(onset_times) - SetMin(onset_times), OneSecond), Num(1, 1))

\* -corrcoef(a, b) when neither min-scaled vector sums to 0, else 0
CorOrZero(a, b) ==
    IF Cardinality(a) > 1 /\ Cardinality(b) > 1 THEN Finite ELSE Zero

\* a variant of the test of a group: a pair of notes counts as a single note
UpToTwoNoteGroup(note_group) == Len(note_group) <= 2

\* len(note_group) == 1
OneNoteGroup(note_group) == Len(note_group) = 1

\* one pass of the loop over the onset groups
AsyncGroup(ms, onset_idxs) ==
    LET note_group == [k \in 1..Len(onset_idxs) |-> ms[onset_idxs[k]]]
        onset_times == {note_group[k].p_onset : k \in 1..Len(note_group)}
        midi_pitch == {note_group[k].pitch : k \in 1..Len(note_group)}
        midi_vel == {note_group[k].velocity : k \in 1..Len(note_group)}
        voices == {note_group[k].voice : k \in 1..Len(note_group)}
        single == OneNoteGroup(note_group)
        top == SetMin({k \in 1..Len(note_group) :
                           note_group[k].pitch = SetMax(midi_pitch)})
    IN  [row |-> [delta |-> AsyncDelta(onset_times),
                  pitch_cor |-> IF single THEN Zero
                                ELSE CorOrZero(midi_pitch, onset_times),
                  vel_cor |-> IF single THEN Zero
                              ELSE CorOrZero(midi_vel, onset_times),
                  pitch_vel_cor |-> IF single THEN Zero
                                    ELSE CorOrZero(midi_vel, midi_pitch),
                  voice_std |-> IF Cardinality(voices) = 1 THEN Zero ELSE Finite],
         no_cor |-> single,
         intervals |-> IF single THEN {}
                       ELSE {INTERVAL_MAP((note_group[k].pitch - SetMax(midi_pitch)) % 12) :
                                k \in (1..Len(note_group)) \ {top}}]

asynchrony_feature(ms, idxs) ==
    LET groups == [i \in 1..Len(idxs) |-> AsyncGroup(ms, idxs[i])]
        async_ == [i \in 1..Len(idxs) |-> groups[i].row]
        no_cor_mask == [i \in 1..Len(idxs) |-> groups[i].no_cor]
        interval_mask == [i \in 1..Len(idxs) |-> groups[i].intervals]
    IN  Result(Table(AsyncNames, onsetwise_to_notewise(async_, idxs)),
               [no_cor_mask |-> onsetwise_to_notewise(no_cor_mask, idxs),
                interval_mask |-> onsetwise_to_notewise(interval_mask, idxs)],
               ms, idxs)

(* Dynamics.  The correlations (tempo_cor, ramp_cor) and avg_vel are left  *)
(* open; a standard deviation is kept as the square root of a fraction.    *)

DynamicsNames == <<"agreement", "consistency_std", "ramp_cor", "tempo_cor">>

\* the ordinal scale of the markings
OLS == <<"ppp", "pp", "p", "mp", "mf", "f", "ff", "fff">>

\* OLS.index(m), counted from 1
OlsIndex(m) == CHOOSE i \in 1..Len(OLS) : OLS[i] = m

\* the labels of constant_dyn, in the order np.unique sorts strings
SortedLabels ==
    <<"N/A", "f", "ff", "fff", "mf", "mp", "p", "pp", "ppp", "sf">>

\* a variant of process_discrete_dynamics: every row keeps its label
keep_every_label(constant_dyn) == constant_dyn

\* process_discrete_dynamics: the label where it differs from the label of
\* the row before (from "N/A" at the first row), "N/A" elsewhere
process_discrete_dynamics(constant_dyn) ==
    LET constant_dyn_shift ==
            <<"N/A">> \o SubSeq(constant_dyn, 1, Len(constant_dyn) - 1)
    IN  [i \in 1..Len(constant_dyn) |->
            IF constant_dyn[i] # constant_dyn_shift[i] THEN constant_dyn[i] ELSE "N/A"]

RECURSIVE SumSeq(_)
SumSeq(sq) == IF sq = <<>> THEN 0 ELSE Head(sq) + SumSeq(Tail(sq))

RECURSIVE ProdSeq(_)
ProdSeq(sq) == IF sq = <<>> THEN 1 ELSE Head(sq) * ProdSeq(Tail(sq))

\* np.mean of the velocities of rows
MeanVelocity(rows) == Num(SumSeq([k \in 1..Len(rows) |-> rows[k].velocity]), Len(rows))

\* the square root of the fraction n/d
Sqrt(n, d) == [k |-> "sqrt", n |-> n, d |-> d]

\* np.std of a sequence of fractions: the root of the mean of the squares
\* minus the square of the mean, over their common denominator
Std(fracs) ==
    LET D == ProdSeq([k \in 1..Len(fracs) |-> fracs[k].d])
        V == [k \in 1..Len(fracs) |-> fracs[k].n * (D \div fracs[k].d)]
        n == Len(fracs)
        num == n * SumSeq([k \in 1..n |-> V[k] * V[k]]) - SumSeq(V) * SumSeq(V)
    IN  IF num = 0 THEN Zero ELSE Sqrt(num, n * n * D * D)

\* kendalltau([v1, v2 + 1e-5], [m1_, m2_ + 1e-5]): 1 when the two pairs are
\* ordered alike, -1 when not; the shifts break the ties upwards
KendallTau(v1, v2, m1_, m2_) ==
    IF LessEq(v1, v2) = (m1_ <= m2_) THEN Num(1, 1) ELSE Num(-1, 1)

\* what dynamics_feature computes from the markings
DynamicsMarkings(ms) ==
    LET beats_with_constant_dyn ==
            SortInts({ms[k].onset : k \in {i \in 1..Len(ms) :
                                               ms[i].constant_dyn # "N/A"}})
        nb == Len(beats_with_constant_dyn)
        at(b) == SelectSeq(ms, LAMBDA x : x.onset = b)
        markings == [i \in 1..nb |-> at(beats_with_constant_dyn[i])[1].constant_dyn]
        velocity_agg == [i \in 1..nb |-> MeanVelocity(at(beats_with_constant_dyn[i]))]
        ordinal == SelectSeq([i \in 1..nb |-> i], LAMBDA i : markings[i] \in Range(OLS))
        constant_dynamics ==
            [i \in 1..Len(ordinal) |->
                [m |-> markings[ordinal[i]], v |-> velocity_agg[ordinal[i]]]]
        unique_markings == SelectSeq(SortedLabels, LAMBDA m : m \in Range(markings))
        of(m) == SelectSeq([i \in 1..nb |-> i], LAMBDA i : markings[i] = m)
    IN  [scarce |-> Len(constant_dynamics) < 2,
         agreement |->
            [i \in 1..(Len(constant_dynamics) - 1) |->
                [beat |-> beats_with_constant_dyn[i + 1],
                 tau |-> KendallTau(constant_dynamics[i].v, constant_dynamics[i + 1].v,
                                    OlsIndex(constant_dynamics[i].m),
                                    OlsIndex(constant_dynamics[i + 1].m))]],
         consistency |->
            [i \in 1..Min2(Len(unique_markings), nb) |->
                [beat |-> beats_with_constant_dyn[i],
                 marking_std |->
                    Std([j \in 1..Len(of(unique_markings[i])) |->
                            velocity_agg[of(unique_markings[i])[j]]])]]]

\* the value the loop leaves at the notes of an onset: that of the last
\* pass that writes at this beat, 0 when none does
WrittenAt(passes, onset, field) ==
    LET writers == {i \in 1..Len(passes) : passes[i].beat = onset}
    IN  IF writers = {} THEN Zero ELSE passes[SetMax(writers)][field]

dynamics_feature(ms, idxs) ==
    LET d == DynamicsMarkings(ms)
    IN  Result(Table(DynamicsNames,
                     [k \in 1..Len(ms) |->
                         [agreement |-> IF d.scarce THEN Zero
                                        ELSE WrittenAt(d.agreement, ms[k].onset, "tau"),
                          consistency_std |->
                              IF d.scarce THEN Zero
                              ELSE WrittenAt(d.consistency, ms[k].onset, "marking_std"),
                          ramp_cor |-> IF d.scarce THEN Zero ELSE Finite,
                          tempo_cor |-> Finite]]),
               [avg_vel |-> [i \in 1..Len(idxs) |-> Finite]],
               ms, idxs)

(* Articulation *)

\* the cap of the key overlap ratio, and of the key overlap time in seconds
KorCap == 5

\* a variant of get_kor: the ratio is not capped
get_kor_uncapped(e1, e2) ==
    LET kot == e1.p_offset - e2.p_onset
        ioi == e2.p_onset - e1.p_onset
        kor == IF ioi <= 0 THEN Zero ELSE Num(kot, ioi)
    IN  <<kor, MinNum(Num(kot, OneSecond), Num(KorCap, 1))>>

\* get_kor: (min(kor, 5), min(kot, 5))
get_kor(e1, e2) ==
    LET kot == e1.p_offset - e2.p_onset
        ioi == e2.p_onset - e1.p_onset
        kor == IF ioi <= 0 THEN Zero ELSE Num(kot, ioi)
    IN  <<MinNum(kor, Num(KorCap, 1)), MinNum(Num(kot, OneSecond), Num(KorCap, 1))>>

\* the row with one more field
WithField(row, name, v) ==
    [f \in DOMAIN row \cup {name} |-> IF f = name THEN v ELSE row[f]]

\* a variant of append_fields: the field is added to the array it is given
append_fields_in_place(base, name, data) ==
    LET out == [k \in 1..Len(base) |-> WithField(base[k], name, data[k])]
    IN  [out |-> out, arg |-> out]

\* rfn.append_fields(base, name, data, usemask=False): a new array is
\* returned (out); the array it is given (arg) is as it was
append_fields(base, name, data) ==
    LET out == [k \in 1..Len(base) |-> WithField(base[k], name, data[k])]
    IN  [out |-> out, arg |-> base]

NoNote == [some |-> FALSE]

\* get_next_note
get_next_note(note_info, match_voiced) ==
    LET next_position ==
            SetMin({match_voiced[k].onset : k \in {j \in 1..Len(match_voiced) :
                        match_voiced[j].onset > note_info.onset}})
        next_position_notes ==
            SelectSeq(match_voiced, LAMBDA x : x.onset = next_position)
        dist(k) == IF next_position_notes[k].pitch >= note_info.pitch
                   THEN next_position_notes[k].pitch - note_info.pitch
                   ELSE note_info.pitch - next_position_notes[k].pitch
        closest_idx ==
            SetMin({k \in 1..Len(next_position_notes) :
                       \A o \in 1..Len(next_position_notes) : dist(k) <= dist(o)})
    IN  IF next_position # note_info.onset + note_info.duration THEN NoNote
        ELSE [some |-> TRUE, row |-> next_position_notes[closest_idx]]

\* bool(row) of a structured scalar: some field is not zero
Truthy(row) ==
    \E f \in DOMAIN row : IF f = "constant_dyn" THEN row[f] # "" ELSE row[f] # 0

KorNames == <<"kor", "kot">>

\* what the loop over the notes of the lowest voice leaves at position j
ArticulationAt(local, j) ==
    LET min_voice == SetMin({local[k].voice : k \in 1..Len(local)})
        match_voiced == SelectSeq(local, LAMBDA x : x.voice = min_voice)
        note_info == local[j]
        first == SetMin({k \in 1..Len(local) : local[k] = note_info})
        last_beat == SetMax({match_voiced[k].onset : k \in 1..Len(match_voiced)})
        next_note_info == get_next_note(note_info, match_voiced)
        dummy == [kor |-> Num(-1, 1), kot |-> Num(-1, 1)]
    IN  IF note_info.voice # min_voice THEN [row |-> dummy, no_kor |-> TRUE]
        ELSE IF first # j THEN [row |-> dummy, no_kor |-> FALSE]
        ELSE IF note_info.onset = last_beat THEN [row |-> dummy, no_kor |-> TRUE]
        ELSE IF next_note_info.some /\ Truthy(next_note_info.row)
             THEN IF note_info.offset = next_note_info.row.onset
                  THEN [row |-> [kor |-> get_kor(note_info, next_note_info.row)[1],
                                 kot |-> get_kor(note_info, next_note_info.row)[2]],
                        no_kor |-> FALSE]
                  ELSE [row |-> dummy, no_kor |-> FALSE]
        ELSE [row |-> dummy, no_kor |-> TRUE]

\* articulation_feature, return_articulation_mask left at False
articulation_feature(ms, idxs) ==
    LET with_offset ==
            append_fields(ms, "offset",
                          [k \in 1..Len(ms) |-> ms[k].onset + ms[k].duration])
        with_p_offset ==
            append_fields(with_offset.out, "p_offset",
                          [k \in 1..Len(ms) |-> ms[k].p_onset + ms[k].p_duration])
        local == with_p_offset.out
        at == [j \in 1..Len(local) |-> ArticulationAt(local, j)]
    IN  Result(Table(KorNames, [j \in 1..Len(local) |-> at[j].row]),
               [no_kor_mask |-> [j \in 1..Len(local) |-> at[j].no_kor]],
               with_offset.arg, idxs)

(* Pedal.  A performance is its control events, in time order, and the    *)
(* times of the release peaks that find_peaks finds on the sampled ramp;   *)
(* the values of a ramp that is not flat are left open.                    *)

PedalNames ==
    <<"onset_value", "offset_value", "to_prev_release", "to_next_release",
      "average_pedal", "pedal_coverage">>

Control(time, value) == [time |-> time, value |-> value]
Performance(controls, peaks) == [controls |-> controls, peaks |-> peaks]

\* the cap of the times to the releases, in seconds
ReleaseCap == 10

\* pedal_ramp: with at most one control event the time points and values
\* are [0, 0]; the value of the ramp at a time, and the last time point
pedal_ramp(controls) ==
    LET flat == Len(controls) <= 1
    IN  [value |-> IF flat THEN Zero ELSE Finite,
         final_time |-> IF flat THEN 0 ELSE controls[Len(controls)].time]

\* a variant of the average: the integral is divided by any final time
AveragePedalUnguarded(final_time) == IF final_time # 0 THEN Finite ELSE NaN

\* (res[0] / final_time) if final_time else 0
AveragePedal(final_time) == IF final_time # 0 THEN Finite ELSE Zero

\* (continuous_duration / final_time) if final_time else 0
PedalCoverage(final_time) == IF final_time # 0 THEN Finite ELSE Zero

\* a variant of the time to a release: the time is not capped
ToReleaseUncapped(delta) == Num(delta, OneSecond)

\* min(delta, 10)
ToRelease(delta) == MinNum(Num(delta, OneSecond), Num(ReleaseCap, 1))

\* the release times of a note
ReleaseTimes(note, peak_timepoints) ==
    LET peaks_before == {p \in peak_timepoints : note.p_onset >= p}
        peaks_after == {p \in peak_timepoints : note.p_onset + note.p_duration <= p}
    IN  [to_prev_release |->
            IF peaks_before # {} THEN ToRelease(note.p_onset - SetMax(peaks_before))
            ELSE Zero,
         to_next_release |->
            IF peaks_after # {}
            THEN ToRelease(SetMin(peaks_after) - (note.p_onset + note.p_duration))
            ELSE Zero]

pedal_feature(ms, idxs, performance) ==
    LET ramp == pedal_ramp(performance.controls)
    IN  Result(Table(PedalNames,
                     [k \in 1..Len(ms) |->
                         [onset_value |-> ramp.value,
                          offset_value |-> ramp.value,
                          to_prev_release |->
                              ReleaseTimes(ms[k], performance.peaks).to_prev_release,
                          to_next_release |->
                              ReleaseTimes(ms[k], performance.peaks).to_next_release,
                          average_pedal |-> AveragePedal(ramp.final_time),
                          pedal_coverage |-> PedalCoverage(ramp.final_time)]]),
               [x \in {} |-> Finite], ms, idxs)

\* the performance of the runs that do not look at the pedal: the pedal
\* goes down once, and is not released
OnePedalPress == Performance(<<Control(0, 0), Control(1000, 127)>>, {})

(* Phrasing, with the values of the columns left open *)

PhrasingNames == <<"rubato_w", "rubato_q">>

phrasing_feature(ms, idxs) ==
    Result(Table(PhrasingNames, [k \in 1..Len(ms) |-> FiniteRow(PhrasingNames)]),
           [x \in {} |-> Finite], ms, idxs)

\* the extractors of the module, by name
FeatureFunctionNames ==
    {"articulation_feature", "asynchrony_feature", "dynamics_feature",
     "pedal_feature", "phrasing_feature"}

ModuleExtractor(name, ms, idxs) ==
    CASE name = "asynchrony_feature" -> asynchrony_feature(ms, idxs)
      [] name = "dynamics_feature" -> dynamics_feature(ms, idxs)
      [] name = "articulation_feature" -> articulation_feature(ms, idxs)
      [] name = "pedal_feature" -> pedal_feature(ms, idxs, OnePedalPress)
      [] OTHER -> phrasing_feature(ms, idxs)

(* The extractors run one by one on a matched score *)

OthersUntouched == UNCHANGED <<given, built, lines, ret, ltext, lobj, lret>>

FeatFresh == fret.op = ""

\* compute_matched_score(score, performance, alignment)
ComputeMatchedScore(ms) ==
    /\ FeatFresh
    /\ m_score' = ms
    /\ unique_onset_idxs' = get_unique_onset_idxs(ms)
    /\ matched' = <<ms, get_unique_onset_idxs(ms)>>
    /\ fret' = [op |-> "compute_matched_score", arg |-> <<>>, exc |-> "", val |-> <<>>]
    /\ UNCHANGED ran
    /\ OthersUntouched

\* f(m_score, unique_onset_idxs, performance) for an extractor of the module
RunExtractor(f) ==
    /\ matched # <<>>
    /\ Len(ran) < MaxRuns
    /\ LET r == ModuleExtractor(f, m_score, unique_onset_idxs)
       IN  /\ m_score' = r.shared.m_score
           /\ unique_onset_idxs' = r.shared.unique_onset_idxs
           /\ fret' = [op |-> f, arg |-> <<>>, exc |-> "",
                       val |-> [features |-> r.features, extras |-> r.extras]]
    /\ ran' = Append(ran, f)
    /\ UNCHANGED matched
    /\ OthersUntouched

\* the rows get_kor is applied to: a note with its performed offset
KorRows ==
    {[p_onset |-> on, p_offset |-> on + dur] :
        on \in {0, 50, 100}, dur \in {0, 30, 50, 700}}

\* get_kor(e1, e2)
GetKor(e1, e2) ==
    /\ FeatFresh
    /\ fret' = [op |-> "get_kor", arg |-> <<e1, e2>>, exc |-> "",
                val |-> get_kor(e1, e2)]
    /\ UNCHANGED <<m_score, unique_onset_idxs, matched, ran>>
    /\ OthersUntouched

\* the longest matched score the note transitions are looked for in
MaxVoicedNotes == 3

\* the rows of the matched scores of the note transitions: in voice 1 a
\* note of one beat and a note of two beats at onset 0, two notes at onset
\* 1 that are equally far in pitch from the first, a note at onset 2; a
\* note of voice 2
VoicedRows ==
    {Row(0, 1, 100, 80, 60, 64, 1),
     Row(0, 2, 100, 150, 65, 64, 1),
     Row(1, 1, 150, 40, 62, 64, 1),
     Row(1, 1, 160, 40, 58, 64, 1),
     Row(2, 1, 200, 50, 64, 64, 1),
     Row(0, 1, 100, 50, 67, 60, 2)}

VoicedScores == SeqsUpTo(VoicedRows, MaxVoicedNotes) \ {<<>>}

InitFeat == Init

NextFeat ==
    \/ \E ms \in Scores : ComputeMatchedScore(ms)
    \/ \E f \in FeatureFunctionNames : RunExtractor(f)
    \/ \E e1 \in KorRows, e2 \in KorRows : GetKor(e1, e2)

SpecFeat == InitFeat /\ [][NextFeat]_vars

-----------------------------------------------------------------------------
(* compute_performance_features *)

\* the longest list of feature functions requested
MaxFuncs == 2
\* the longest matched score the feature functions are requested on
MaxComputeNotes == 2

\* a name of dir(module): whether it is bound to a function, and the end of
\* the name from its last underscore on
Member(name, function, tail) == [name |-> name, function |-> function, tail |-> tail]

\* dir(sys.modules[__name__]), sorted, without the names in double underscores
ModuleDir ==
    <<Member("CONSONANCE", FALSE, ""), Member("INTERVAL_MAP", FALSE, "_MAP"),
      Member("InvalidPerformanceFeatureException", FALSE, ""),
      Member("List", FALSE, ""), Member("OLS", FALSE, ""),
      Member("PerformanceLike", FALSE, ""), Member("PerformedPart", FALSE, ""),
      Member("ScoreLike", FALSE, ""), Member("Union", FALSE, ""),
      Member("articulation_feature", TRUE, "_feature"),
      Member("asynchrony_feature", TRUE, "_feature"),
      Member("compute_matched_score", TRUE, "_score"),
      Member("compute_performance_features", TRUE, "_features"),
      Member("dynamics_feature", TRUE, "_feature"),
      Member("encode_tempo", TRUE, "_tempo"),
      Member("find_peaks", TRUE, "_peaks"),
      Member("freiberg_kinematic", TRUE, "_kinematic"),
      Member("get_kor", TRUE, "_kor"), Member("get_next_note", TRUE, "_note"),
      Member("get_phrase_end", TRUE, "_end"), Member("interp1d", TRUE, ""),
      Member("least_squares", TRUE, "_squares"),
      Member("list_performance_feats_functions", TRUE, "_functions"),
      Member("list_performance_feature_functions", TRUE, "_functions"),
      Member("map_fields", TRUE, "_fields"), Member("np", FALSE, ""),
      Member("onsetwise_to_notewise", TRUE, "_notewise"),
      Member("parse_changing_ramp", TRUE, "_ramp"),
      Member("pedal_feature", TRUE, "_feature"), Member("pedal_ramp", TRUE, "_ramp"),
      Member("phrasing_feature", TRUE, "_feature"), Member("plt", FALSE, ""),
      Member("print_performance_feats_functions", TRUE, "_functions"),
      Member("print_performance_feature_functions", TRUE, "_functions"),
      Member("process_discrete_dynamics", TRUE, "_dynamics"),
      Member("quad", TRUE, ""), Member("rfn", FALSE, ""), Member("stats", FALSE, ""),
      Member("sys", FALSE, ""), Member("to_matched_score", TRUE, "_score"),
      Member("types", FALSE, ""), Member("warnings", FALSE, "")>>

\* a variant of the test of list_performance_feats_functions: a name that
\* ends in "_features" passes too
IsFeatureFunctionOrFeatures(member) ==
    /\ member.name \notin {"make_feature"}
    /\ member.function
    /\ member.tail \in {"_feature", "_features"}

\* name not in exclude, isinstance(member, types.FunctionType) and
\* name.endswith("_feature")
IsFeatureFunction(member) ==
    /\ member.name \notin {"make_feature"}
    /\ member.function
    /\ member.tail = "_feature"

NameOf(member) == member.name

\* list_performance_feats_functions
list_performance_feats_functions ==
    MapSeq(NameOf, SelectSeq(ModuleDir, IsFeatureFunction))

\* an element of feature_functions: a string, a function object, or
\* something else.  A function object that is not of the module returns a
\* table of its columns cols with as many rows as there are notes ("all"),
\* none ("none") or one more ("more"), NaN in the columns nan and an
\* infinity in the columns inf, and the other entries extras
Element(kind, name, cols, rows, nan, inf, extras) ==
    [kind |-> kind, name |-> name, cols |-> cols, rows |-> rows,
     nan |-> nan, inf |-> inf, extras |-> extras]
StrE(name) == Element("str", name, <<>>, "", {}, {}, {})
FunE(name, cols, rows, nan, inf, extras) ==
    Element("function", name, cols, rows, nan, inf, extras)
\* a function or another attribute of the module
ModuleE(name) == Element("module", name, <<>>, "", {}, {}, {})
IntE == Element("int", "3", <<>>, "", {}, {}, {})
NoFunc == Element("unbound", "", <<>>, "", {}, {}, {})

Elements ==
    {StrE("asynchrony_feature"), StrE("articulation_feature"),
     StrE("no_such_feature"), StrE("OLS"),
     FunE("my_feature", <<"a", "b">>, "all", {}, {}, {"diag"}),
     FunE("empty_feature", <<"a">>, "none", {}, {}, {}),
     FunE("long_feature", <<"a", "b">>, "more", {}, {}, {}),
     FunE("nan_feature", <<"a", "b", "c">>, "all", {"b"}, {"c"}, {}),
     IntE}

\* a value of feature_functions
Request(kind, name, items) == [kind |-> kind, s |-> name, items |-> items]

Requests ==
    {Request("list", "", items) : items \in SeqsUpTo(Elements, MaxFuncs)}
    \cup {Request("str", "all", <<>>), Request("str", "asynchrony_feature", <<>>),
          Request("tuple", "", <<StrE("asynchrony_feature")>>),
          Request("NoneType", "", <<>>)}

\* the rows of the matched scores given to compute_performance_features:
\* two notes of one chord and a later note
ComputeRows ==
    {Row(0, 1, 100, 50, 60, 64, 1),
     Row(0, 1, 102, 200, 64, 70, 1),
     Row(1, 1, 250, 20, 62, 64, 1)}

ComputeScores == SeqsUpTo(ComputeRows, MaxComputeNotes) \ {<<>>}

\* getattr(sys.modules[__name__], bf)
ModuleAttr(name) ==
    IF \E k \in 1..Len(ModuleDir) : ModuleDir[k].name = name
    THEN Return(ModuleE(name))
    ELSE Raise("AttributeError")

\* the table a function object that is not of the module returns
CustomTable(func, n_notes) ==
    LET n == CASE func.rows = "all" -> n_notes
               [] func.rows = "more" -> n_notes + 1
               [] OTHER -> 0
        row == [c \in Range(func.cols) |->
                    IF c \in func.nan THEN NaN
                    ELSE IF c \in func.inf THEN Inf ELSE Finite]
    IN  Table(func.cols, [k \in 1..n |-> row])

\* func(m_score, unique_onset_idxs, performance, **kwargs)
CallFunc(func, ms, idxs) ==
    IF func.kind = "module"
    THEN IF func.name \in FeatureFunctionNames
         THEN Return(ModuleExtractor(func.name, ms, idxs))
         ELSE Raise("TypeError")
    ELSE Return(Result(CustomTable(func, Len(ms)),
                       [key \in func.extras |-> Finite], ms, idxs))

\* {**a, **b}
MergeDicts(a, b) ==
    [key \in DOMAIN a \cup DOMAIN b |-> IF key \in DOMAIN b THEN b[key] ELSE a[key]]

\* an exception message: a template, and the strings that fill it
Message(template, args) == [template |-> template, args |-> args]
NoMessage == Message("", <<>>)

\* a variant of the renaming: the columns keep their names
Unprefixed(func, features) ==
    Table([k \in 1..Len(features.names) |-> <<"", features.names[k]>>],
          [r \in 1..Len(features.rows) |->
              [c \in {<<"", features.names[k]>> : k \in 1..Len(features.names)} |->
                  features.rows[r][c[2]]]])

\* rfn.rename_fields with "{}.{}".format(func.__name__, n) for each column n;
\* a name "f.n" is the pair (f, n)
Prefixed(func, features) ==
    Table([k \in 1..Len(features.names) |-> <<func.name, features.names[k]>>],
          [r \in 1..Len(features.rows) |->
              [c \in {<<func.name, features.names[k]>> : k \in 1..Len(features.names)} |->
                  features.rows[r][c[2]]]])

RECURSIVE ConcatNames(_)
ConcatNames(acc) ==
    IF acc = <<>> THEN <<>> ELSE Head(acc).names \o ConcatNames(Tail(acc))

\* the value of column c in row r of the table, -1 (the fill value) past
\* its last row
Filled(table, r, c) ==
    IF r <= Len(table.rows) THEN table.rows[r][c] ELSE Num(-1, 1)

\* rfn.merge_arrays(acc, flatten=True, usemask=False): max() of no sizes
\* and a field name that occurs twice raise
merge_arrays(acc) ==
    LET names == ConcatNames(acc)
        maxlength == SetMax({Len(acc[t].rows) : t \in 1..Len(acc)})
    IN  IF acc = <<>> THEN Raise("ValueError")
        ELSE IF Cardinality(Range(names)) # Len(names) THEN Raise("ValueError")
        ELSE Return(Table(names,
                 [r \in 1..maxlength |->
                     [c \in Range(names) |->
                         Filled(acc[CHOOSE t \in 1..Len(acc) : c \in Range(acc[t].names)],
                                r, c)]]))

\* a variant of the row-count test: only a table with too few rows fails
TooFewRows(features, n_notes) == Len(features.rows) < n_notes

\* len(features) != n_notes
WrongLength(features, n_notes) == Len(features.rows) # n_notes

\* the columns of a table that hold a NaN or an infinity, in column order
Problematic(features) ==
    SelectSeq(features.names,
              LAMBDA c : \E r \in 1..Len(features.rows) :
                            features.rows[r][c].k \in {"nan", "inf"})

\* how a call of compute_performance_features ends: the exception and its
\* message, or the merged table and the extras; with them the functions
\* called, in order, the tables they returned, and the shared arrays
Outcome(exc, msg, features, st) ==
    [exc |-> exc, msg |-> msg, performance_features |-> features,
     extra_returns |-> st.extra_returns, calls |-> st.calls,
     returned |-> st.returned,
     shared |-> [m_score |-> st.m_score, unique_onset_idxs |-> st.unique_onset_idxs]]

NoTable == Table(<<>>, <<>>)

\* a variant of the update of extra_returns: the entries of the extractor
\* are dropped
KeepExtras(extra_returns, res) == extra_returns

\* extra_returns = {**extra_returns, **res}, res without its features
UpdateExtras(extra_returns, res) == MergeDicts(extra_returns, res)

\* the loop over feature_functions, from element k on, and the merge
RECURSIVE ForEachFunction(_, _, _)

\* the state of the loop after func has returned val
AfterCall(st, func, val) ==
    [st EXCEPT
        !.func = func,
        !.calls = Append(@, func.name),
        !.returned = Append(@, val.features),
        !.extra_returns = UpdateExtras(@, val.extras),
        !.m_score = val.shared.m_score,
        !.unique_onset_idxs = val.shared.unique_onset_idxs]

\* the checks of the table func returned, and the rest of the loop
CheckFeatures(feature_functions, k, after, func, features, n_notes) ==
    IF Len(features.rows) = 0
    THEN ForEachFunction(feature_functions, k + 1, after)
    ELSE IF WrongLength(features, n_notes)
    THEN Outcome("InvalidPerformanceFeatureException",
                 Message("length of feature {} does not equal number of notes {}",
                         <<ToString(Len(features.rows)), ToString(n_notes)>>),
                 NoTable, after)
    ELSE IF Problematic(features) # <<>>
    THEN Outcome("InvalidPerformanceFeatureException",
                 Message("NaNs or Infs found in the following feature: {} ",
                         Problematic(features)),
                 NoTable, after)
    ELSE ForEachFunction(feature_functions, k + 1,
                         [after EXCEPT !.acc = Append(@, Prefixed(func, features))])

\* what follows the call of func, res being its outcome
AfterFunc(feature_functions, k, st, func, res) ==
    IF res.exc # ""
    THEN Outcome(res.exc, NoMessage, NoTable, st)
    ELSE CheckFeatures(feature_functions, k, AfterCall(st, func, res.val), func,
                       res.val.features, Len(res.val.shared.m_score))

\* the call of func, the function bound by the element or left by the
\* element before it
WithFunc(feature_functions, k, st, func) ==
    IF func = NoFunc
    THEN Outcome("UnboundLocalError", NoMessage, NoTable, st)
    ELSE AfterFunc(feature_functions, k, st, func,
                   CallFunc(func, st.m_score, st.unique_onset_idxs))

\* the binding of func by the element bf, attr being the module's attribute
\* of its name
BindFunc(feature_functions, k, st, bf, attr) ==
    IF bf.kind = "str" /\ attr.exc # ""
    THEN Outcome(attr.exc, NoMessage, NoTable, st)
    ELSE WithFunc(feature_functions, k, st,
                  IF bf.kind = "str" THEN attr.val
                  ELSE IF bf.kind = "function" THEN bf
                  ELSE st.func)

\* the merge of the accepted tables
MergeAll(st, merged) ==
    IF merged.exc # "" THEN Outcome(merged.exc, NoMessage, NoTable, st)
    ELSE Outcome("", NoMessage, merged.val, st)

ForEachFunction(feature_functions, k, st) ==
    IF k > Len(feature_functions)
    THEN MergeAll(st, merge_arrays(st.acc))
    ELSE BindFunc(feature_functions, k, st, feature_functions[k],
                  ModuleAttr(feature_functions[k].name))

\* compute_performance_features, from the matched score on
compute_performance_features(ms, idxs, feature_functions) ==
    LET st == [func |-> NoFunc, acc |-> <<>>,
               extra_returns |-> [unique_onset_idxs |-> idxs, m_score |-> ms],
               calls |-> <<>>, returned |-> <<>>,
               m_score |-> ms, unique_onset_idxs |-> idxs]
    IN  IF feature_functions.kind # "list"
           /\ ~(feature_functions.kind = "str" /\ feature_functions.s = "all")
        THEN Outcome("TypeError", NoMessage, NoTable, st)
        ELSE ForEachFunction(IF feature_functions.kind = "str"
                             THEN MapSeq(StrE, list_performance_feats_functions)
                             ELSE feature_functions.items, 1, st)

\* the record of a call that ended as r
Returned(op, arg, r) == [op |-> op, arg |-> arg, exc |-> r.exc, val |-> r]

\* compute_performance_features(score, performance, alignment,
\* feature_functions), ms being the matched score of its first line
ComputePerformanceFeatures(ms, feature_functions) ==
    /\ FeatFresh
    /\ matched' = <<ms, get_unique_onset_idxs(ms)>>
    /\ fret' = Returned("compute_performance_features", feature_functions,
                        compute_performance_features(ms, matched'[2],
                                                     feature_functions))
    /\ m_score' = fret'.val.shared.m_score
    /\ unique_onset_idxs' = fret'.val.shared.unique_onset_idxs
    /\ ran' = fret'.val.calls
    /\ OthersUntouched

\* list_performance_feats_functions()
ListPerformanceFeatsFunctions ==
    /\ FeatFresh
    /\ fret' = [op |-> "list_performance_feats_functions", arg |-> <<>>,
                exc |-> "", val |-> list_performance_feats_functions]
    /\ UNCHANGED <<m_score, unique_onset_idxs, matched, ran>>
    /\ OthersUntouched

NextCompute ==
    \/ \E ms \in OnceOnly(FeatFresh, ComputeScores), feature_functions \in Requests :
          ComputePerformanceFeatures(ms, feature_functions)
    \/ ListPerformanceFeatsFunctions

SpecCompute == Init /\ [][NextCompute]_vars

(* The pedal of performances with and without control events *)

\* the performances: no control event, one, and a pedal that goes down and
\* up with releases found at 0.5 s, at 14 s, at both or nowhere
PedalPerformances ==
    {Performance(<<>>, {}), Performance(<<Control(100, 64)>>, {})}
    \cup {Performance(<<Control(0, 127), Control(50, 0), Control(700, 127),
                        Control(1400, 0), Control(1500, 64)>>, peaks) :
             peaks \in SUBSET {50, 1400}}
    \cup {Performance(<<Control(0, 127), Control(400, 0), Control(800, 127)>>, peaks) :
             peaks \in SUBSET {400}}
    \cup {Performance(<<Control(0, 0), Control(0, 0)>>, {}),
          Performance(<<Control(0, 0), Control(600, 127)>>, {})}

\* pedal_feature(m_score, unique_onset_idxs, performance)
PedalFeature(performance) ==
    /\ matched # <<>>
    /\ ran = <<>>
    /\ LET r == pedal_feature(m_score, unique_onset_idxs, performance)
       IN  /\ m_score' = r.shared.m_score
           /\ unique_onset_idxs' = r.shared.unique_onset_idxs
           /\ fret' = [op |-> "pedal_feature", arg |-> performance, exc |-> "",
                       val |-> [features |-> r.features, extras |-> r.extras]]
    /\ ran' = Append(ran, "pedal_feature")
    /\ UNCHANGED matched
    /\ OthersUntouched

NextPedal ==
    \/ \E ms \in OnceOnly(FeatFresh, ComputeScores) : ComputeMatchedScore(ms)
    \/ \E performance \in PedalPerformances : PedalFeature(performance)

SpecPedal == InitFeat /\ [][NextPedal]_vars

(* Dynamics on matched scores with markings *)

\* the longest matched score with markings
MaxMarkedNotes == 3

\* a note of a matched score with markings: its velocity, whether it
\* sounds with the note before it, and the marking in force at it
MarkedNotes ==
    [velocity : {40, 80}, chord : BOOLEAN, dyn : {"N/A", "p", "f", "sf"}]

\* the notes of a chord are under the same marking
MarkedNoteSeqs ==
    {ns \in SeqsUpTo(MarkedNotes, MaxMarkedNotes) \ {<<>>} :
        /\ ~ns[1].chord
        /\ \A k \in 2..Len(ns) : ns[k].chord => ns[k].dyn = ns[k - 1].dyn}

\* the matched score of the notes: the onsets in score order, constant_dyn
\* as process_discrete_dynamics leaves it
MarkedScore(ns) ==
    LET onset(k) == Cardinality({i \in 2..k : ~ns[i].chord})
        constant_dyn == process_discrete_dynamics([k \in 1..Len(ns) |-> ns[k].dyn])
    IN  [k \in 1..Len(ns) |->
            [Row(onset(k), 1, 100 * onset(k), 50, 60, ns[k].velocity, 1)
                EXCEPT !.constant_dyn = constant_dyn[k]]]

MarkedScores == {MarkedScore(ns) : ns \in MarkedNoteSeqs}

\* process_discrete_dynamics(constant_dyn)
ProcessDiscreteDynamics(constant_dyn) ==
    /\ FeatFresh
    /\ fret' = [op |-> "process_discrete_dynamics", arg |-> constant_dyn, exc |-> "",
                val |-> process_discrete_dynamics(constant_dyn)]
    /\ UNCHANGED <<m_score, unique_onset_idxs, matched, ran>>
    /\ OthersUntouched

NextMarked ==
    \/ \E ms \in OnceOnly(FeatFresh, MarkedScores) : ComputeMatchedScore(ms)
    \/ RunExtractor("dynamics_feature")
    \/ \E constant_dyn \in
            OnceOnly(FeatFresh, SeqsUpTo({"N/A", "p", "f", "sf"}, MaxMarkedNotes)) :
          ProcessDiscreteDynamics(constant_dyn)

SpecMarked == InitFeat /\ [][NextMarked]_vars

\* articulation_feature on the matched scores of the note transitions
NextVoiced ==
    \/ \E ms \in OnceOnly(FeatFresh, VoicedScores) : ComputeMatchedScore(ms)
    \/ RunExtractor("articulation_feature")

SpecVoiced == InitFeat /\ [][NextVoiced]_vars

-----------------------------------------------------------------------------
(* Properties of the extractors, under SpecFeat *)

\* C13 as stated: get_kor returns a kor in [0, 5] when the performed
\* inter-onset interval is > 0, and exactly 0 when it is <= 0.
C13_KorInZeroFive ==
    fret.op = "get_kor" =>
        LET ioi == fret.arg[2].p_onset - fret.arg[1].p_onset
            kor == fret.val[1]
        IN  IF ioi > 0 THEN LessEq(Zero, kor) /\ LessEq(kor, Num(5, 1))
            ELSE EqNum(kor, Zero)

\* C13, amended: when the performed inter-onset interval is > 0, kor is the
\* key overlap time over that interval, capped at 5, and lies in [-1, 5]
\* (it is negative when the note is released before the next onset); when
\* the interval is <= 0, kor is exactly 0.
C13_KorBound ==
    fret.op = "get_kor" =>
        LET ioi == fret.arg[2].p_onset - fret.arg[1].p_onset
            kot == fret.arg[1].p_offset - fret.arg[2].p_onset
            kor == fret.val[1]
        IN  IF ioi > 0
            THEN /\ LessEq(Num(-1, 1), kor) /\ LessEq(kor, Num(5, 1))
                 /\ IF kot <= 5 * ioi THEN EqNum(kor, Num(kot, ioi))
                    ELSE EqNum(kor, Num(5, 1))
            ELSE EqNum(kor, Zero)

\* a note released 0.2 s before the next onset, 0.5 s after its own
C13_Witness ==
    /\ fret.op = "get_kor"
    /\ fret.arg[2].p_onset - fret.arg[1].p_onset = 50
    /\ fret.arg[1].p_offset - fret.arg[2].p_onset = -20
    /\ EqNum(fret.val[1], Num(-2, 5))

\* C19: no extractor modifies the matched score or the onset groups it is
\* given: after any sequence of extractor runs they are as
\* compute_matched_score made them.
C19_SharedInputsKept ==
    matched # <<>> => m_score = matched[1] /\ unique_onset_idxs = matched[2]

\* articulation and another extractor have run, in either order
C19_Witness ==
    /\ Len(ran) = 2
    /\ ran[1] # ran[2]
    /\ "articulation_feature" \in Range(ran)
    /\ m_score = matched[1]
    /\ "offset" \notin DOMAIN m_score[1]

\* the performed onsets of the notes of a group
GroupOnsets(ms, group) == {ms[group[k]].p_onset : k \in 1..Len(group)}

\* C20: for every onset group, the asynchrony delta is
\* min(max performed onset - min performed onset, 1), hence in [0, 1], and
\* every note of the group receives the value of its group.
C20_AsyncDelta ==
    fret.op = "asynchrony_feature" =>
        \A i \in 1..Len(matched[2]) :
            LET spread == SetMax(GroupOnsets(matched[1], matched[2][i]))
                          - SetMin(GroupOnsets(matched[1], matched[2][i]))
            IN  \A k \in Range(matched[2][i]) :
                    LET delta == fret.val.features.rows[k].delta
                    IN  /\ EqNum(delta, Num(Min2(spread, OneSecond), OneSecond))
                        /\ LessEq(Zero, delta) /\ LessEq(delta, Num(1, 1))

\* the chord played at 1.00, 1.02 and 1.05 s: each of its notes gets 0.05
C20_Witness ==
    /\ fret.op = "asynchrony_feature"
    /\ Len(matched[1]) = 3
    /\ GroupOnsets(matched[1], matched[2][1]) = {100, 102, 105}
    /\ \A k \in 1..3 : EqNum(fret.val.features.rows[k].delta, Num(5, OneSecond))

\* C21: an onset group with exactly one note is flagged in no_cor_mask and
\* its pitch_cor, vel_cor and pitch_vel_cor are 0; a group with two or more
\* notes is not flagged; every note carries the flag of its group.
C21_NoCorMask ==
    fret.op = "asynchrony_feature" =>
        \A i \in 1..Len(matched[2]) :
            \A k \in Range(matched[2][i]) :
                LET row == fret.val.features.rows[k]
                    flag == fret.val.extras.no_cor_mask[k]
                IN  /\ flag = (Len(matched[2][i]) = 1)
                    /\ flag => /\ EqNum(row.pitch_cor, Zero)
                               /\ EqNum(row.vel_cor, Zero)
                               /\ EqNum(row.pitch_vel_cor, Zero)

\* a chord of two notes and a single later note: the two notes of the chord
\* are not flagged and have a pitch correlation, the single note is flagged
C21_Witness ==
    /\ fret.op = "asynchrony_feature"
    /\ matched[2] = <<(<<1, 2>>), (<<3>>)>>
    /\ fret.val.extras.no_cor_mask = <<FALSE, FALSE, TRUE>>
    /\ fret.val.features.rows[1].pitch_cor = Finite
    /\ EqNum(fret.val.features.rows[3].pitch_cor, Zero)

(* Properties of the pedal, under SpecPedal *)

\* C25: with zero pedal control events onset_value, offset_value,
\* average_pedal and pedal_coverage are 0 for every note (nothing is divided
\* by the zero final time, so none is a NaN); to_prev_release and
\* to_next_release are never above 10, whatever the control events.
C25_NoPedal ==
    fret.op = "pedal_feature" =>
        \A k \in 1..Len(fret.val.features.rows) :
            LET row == fret.val.features.rows[k]
            IN  /\ fret.arg.controls = <<>> =>
                       /\ EqNum(row.onset_value, Zero)
                       /\ EqNum(row.offset_value, Zero)
                       /\ EqNum(row.average_pedal, Zero)
                       /\ EqNum(row.pedal_coverage, Zero)
                /\ row.to_prev_release.k = "num"
                /\ row.to_next_release.k = "num"
                /\ LessEq(row.to_prev_release, Num(10, 1))
                /\ LessEq(row.to_next_release, Num(10, 1))

\* a performance without control events, on a score of two notes
C25_Witness ==
    /\ fret.op = "pedal_feature"
    /\ fret.arg.controls = <<>>
    /\ Len(fret.val.features.rows) = 2
    /\ EqNum(fret.val.features.rows[2].average_pedal, Zero)

\* a release found 12.5 s after the end of a note: the time is capped
C25_WitnessCapped ==
    /\ fret.op = "pedal_feature"
    /\ fret.arg.peaks = {1400}
    /\ m_score[1].p_onset + m_score[1].p_duration = 150
    /\ EqNum(fret.val.features.rows[1].to_next_release, Num(10, 1))

(* Properties of the dynamics, under SpecMarked *)

\* C23: process_discrete_dynamics keeps the label of row i exactly when it
\* differs from the label of row i-1 (row 0 is compared with "N/A") and
\* writes "N/A" at every other row; the output is as long as the input.
C23_DiscreteDynamics ==
    fret.op = "process_discrete_dynamics" =>
        /\ Len(fret.val) = Len(fret.arg)
        /\ \A i \in 1..Len(fret.arg) :
              LET before == IF i = 1 THEN "N/A" ELSE fret.arg[i - 1]
              IN  fret.val[i] = IF fret.arg[i] # before THEN fret.arg[i] ELSE "N/A"

\* a run of two p after an f: the second p is written "N/A"
C23_Witness ==
    /\ fret.op = "process_discrete_dynamics"
    /\ fret.arg = <<"f", "p", "p">>
    /\ fret.val = <<"f", "p", "N/A">>

\* the marking an onset carries: the label of its first row
CarriedMarking(ms, onset) == SelectSeq(ms, LAMBDA x : x.onset = onset)[1].constant_dyn

\* the onsets with a marking, in score order
MarkedOnsets(ms) ==
    SortInts({ms[k].onset : k \in {i \in 1..Len(ms) : ms[i].constant_dyn # "N/A"}})

\* the aggregated velocities of the occurrences of a marking, in score order
OccurrenceVelocities(ms, m) ==
    LET occ == SelectSeq(MarkedOnsets(ms), LAMBDA b : CarriedMarking(ms, b) = m)
    IN  [i \in 1..Len(occ) |-> MeanVelocity(SelectSeq(ms, LAMBDA x : x.onset = occ[i]))]

\* the markings of the ordinal scale, in score order, with their onsets
OrdinalMarkings(ms) ==
    SelectSeq([i \in 1..Len(MarkedOnsets(ms)) |->
                  [beat |-> MarkedOnsets(ms)[i],
                   m |-> CarriedMarking(ms, MarkedOnsets(ms)[i])]],
              LAMBDA x : x.m \in Range(OLS))

\* two roots of fractions are equal
EqRoot(a, b) == a.n * b.d = b.n * a.d

\* C24: the consistency value of a marking is the standard deviation of the
\* aggregated velocities of all occurrences of that marking, and the
\* consistency_std of the notes at an onset that carries a marking is the
\* value of that marking.
C24_ConsistencyOfCarriedMarking ==
    fret.op = "dynamics_feature" /\ Len(OrdinalMarkings(matched[1])) >= 2 =>
        \A k \in 1..Len(matched[1]) :
            matched[1][k].onset \in Range(MarkedOnsets(matched[1])) =>
                EqRoot(fret.val.features.rows[k].consistency_std,
                       Std(OccurrenceVelocities(matched[1],
                               CarriedMarking(matched[1], matched[1][k].onset))))

\* the part of C24 that holds: every consistency_std written is the standard
\* deviation of the aggregated velocities of all occurrences of one marking
C24_ConsistencyOfSomeMarking ==
    fret.op = "dynamics_feature" =>
        \A k \in 1..Len(matched[1]) :
            \/ EqRoot(fret.val.features.rows[k].consistency_std, Zero)
            \/ \E b \in Range(MarkedOnsets(matched[1])) :
                   EqRoot(fret.val.features.rows[k].consistency_std,
                          Std(OccurrenceVelocities(matched[1],
                                  CarriedMarking(matched[1], b))))

\* the agreement of two markings of the ordinal scale: 1 when their
\* aggregated velocities are ordered as the markings are, -1 when not
ExpectedAgreement(ms, first, second) ==
    LET v1 == MeanVelocity(SelectSeq(ms, LAMBDA x : x.onset = first.beat))
        v2 == MeanVelocity(SelectSeq(ms, LAMBDA x : x.onset = second.beat))
    IN  IF (v1.n * v2.d < v2.n * v1.d) = (OlsIndex(first.m) < OlsIndex(second.m))
        THEN Num(1, 1) ELSE Num(-1, 1)

\* the adjacent pairs of ordinal markings that differ in marking and in
\* aggregated velocity have their agreement at the notes of the second onset
AgreementAtSecondMarking(ms, rows) ==
    \A i \in 1..(Len(OrdinalMarkings(ms)) - 1) :
        LET first == OrdinalMarkings(ms)[i]
            second == OrdinalMarkings(ms)[i + 1]
        IN  /\ first.m # second.m
            /\ ~EqNum(MeanVelocity(SelectSeq(ms, LAMBDA x : x.onset = first.beat)),
                      MeanVelocity(SelectSeq(ms, LAMBDA x : x.onset = second.beat)))
            => \A k \in 1..Len(ms) :
                  ms[k].onset = second.beat =>
                      EqNum(rows[k].agreement, ExpectedAgreement(ms, first, second))

\* agreement, consistency_std and ramp_cor are 0 at every note
MarkingFeaturesZero(rows) ==
    \A k \in 1..Len(rows) :
        /\ EqNum(rows[k].agreement, Zero)
        /\ EqNum(rows[k].consistency_std, Zero)
        /\ EqNum(rows[k].ramp_cor, Zero)

\* C30: for each adjacent pair of markings of the ordinal scale the
\* agreement value (+1 when the aggregated velocities are ordered as the
\* markings, -1 otherwise) is at the notes of the onset of the pair's second
\* marking, also when other markings occur; with fewer than two ordinal
\* markings, agreement, consistency_std and ramp_cor are 0 for every note.
C30_Agreement ==
    fret.op = "dynamics_feature" =>
        IF Len(OrdinalMarkings(matched[1])) >= 2
        THEN AgreementAtSecondMarking(matched[1], fret.val.features.rows)
        ELSE MarkingFeaturesZero(fret.val.features.rows)

\* the part of C30 that holds: the same, for the scores all of whose
\* markings are of the ordinal scale
C30_AgreementWithinScale ==
    /\ fret.op = "dynamics_feature"
    /\ \A b \in Range(MarkedOnsets(matched[1])) :
           CarriedMarking(matched[1], b) \in Range(OLS)
    => IF Len(OrdinalMarkings(matched[1])) >= 2
       THEN AgreementAtSecondMarking(matched[1], fret.val.features.rows)
       ELSE MarkingFeaturesZero(fret.val.features.rows)

(* Properties of the note transitions, under SpecVoiced *)

\* the onsets of the notes of the minimum-index voice
LowestVoiceOnsets(ms) ==
    {ms[k].onset : k \in {i \in 1..Len(ms) :
                              ms[i].voice = SetMin({ms[o].voice : o \in 1..Len(ms)})}}

\* the earliest onset of the minimum-index voice after the onset of note j
EarliestLater(ms, j) == SetMin({o \in LowestVoiceOnsets(ms) : o > ms[j].onset})

\* note j is of the minimum-index voice, not at its last onset, and the
\* earliest later onset is where its score duration ends
HasNextNote(ms, j) ==
    /\ ms[j].voice = SetMin({ms[o].voice : o \in 1..Len(ms)})
    /\ ms[j].onset # SetMax(LowestVoiceOnsets(ms))
    /\ EarliestLater(ms, j) = ms[j].onset + ms[j].duration

PitchDistance(a, b) == IF a.pitch >= b.pitch THEN a.pitch - b.pitch ELSE b.pitch - a.pitch

\* the notes of the voice at the earliest later onset that are nearest in
\* pitch to note j
ClosestNext(ms, j) ==
    LET at == {k \in 1..Len(ms) : /\ ms[k].voice = ms[j].voice
                                   /\ ms[k].onset = EarliestLater(ms, j)}
    IN  {k \in at : \A o \in at :
                        PitchDistance(ms[k], ms[j]) <= PitchDistance(ms[o], ms[j])}

\* the key overlap ratio of the transition from note j to note k
TransitionKor(ms, j, k) ==
    get_kor([p_onset |-> ms[j].p_onset, p_offset |-> ms[j].p_onset + ms[j].p_duration],
            [p_onset |-> ms[k].p_onset, p_offset |-> ms[k].p_onset + ms[k].p_duration])[1]

\* C22: a note of the minimum-index voice that is not at the voice's last
\* onset has a next note exactly when the earliest later onset of the voice
\* equals its score onset plus score duration, and its kor is that of the
\* transition to a note at that onset nearest in pitch; every other note
\* (no next note, or another voice) is flagged no-KOR and keeps kor = -1.
C22_NextNote ==
    fret.op = "articulation_feature" =>
        \A j \in 1..Len(matched[1]) :
            LET row == fret.val.features.rows[j]
                flag == fret.val.extras.no_kor_mask[j]
            IN  IF HasNextNote(matched[1], j)
                THEN /\ ~flag
                     /\ \E k \in ClosestNext(matched[1], j) :
                            EqNum(row.kor, TransitionKor(matched[1], j, k))
                ELSE flag /\ EqNum(row.kor, Num(-1, 1))

\* the same, for the notes whose row does not repeat an earlier row
C22_NextNoteOfFirstRows ==
    fret.op = "articulation_feature" =>
        \A j \in 1..Len(matched[1]) :
            LET row == fret.val.features.rows[j]
                flag == fret.val.extras.no_kor_mask[j]
            IN  (\A i \in 1..(j - 1) : matched[1][i] # matched[1][j]) =>
                IF HasNextNote(matched[1], j)
                THEN /\ ~flag
                     /\ \E k \in ClosestNext(matched[1], j) :
                            EqNum(row.kor, TransitionKor(matched[1], j, k))
                ELSE flag /\ EqNum(row.kor, Num(-1, 1))

-----------------------------------------------------------------------------
(* Properties of compute_performance_features, under SpecCompute *)

IPFE == "InvalidPerformanceFeatureException"

\* a table that is not empty and has a wrong row count, a NaN or an infinity
Invalid(table, n_notes) ==
    /\ Len(table.rows) # 0
    /\ \/ Len(table.rows) # n_notes
       \/ \E r \in 1..Len(table.rows), c \in Range(table.names) :
              table.rows[r][c].k \in {"nan", "inf"}

Offending(table, n_notes) ==
    IF Len(table.rows) # n_notes THEN Range(table.names)
    ELSE {c \in Range(table.names) :
             \E r \in 1..Len(table.rows) : table.rows[r][c].k \in {"nan", "inf"}}

\* C15: when an extractor's output fails the row-count or the NaN/Inf
\* check, the error names the responsible extractor and the offending
\* columns.
C15_ErrorNamesExtractorAndColumns ==
    fret.op = "compute_performance_features" /\ fret.exc = IPFE =>
        LET o == fret.val
            last == Len(o.returned)
        IN  /\ o.calls[last] \in Range(o.msg.args)
            /\ Offending(o.returned[last], Len(matched[1])) \subseteq Range(o.msg.args)

\* the part of C15 that holds: the NaN/Inf error names the offending columns
NanErrorNamesColumns ==
    /\ fret.op = "compute_performance_features"
    /\ fret.exc = IPFE
    /\ Len(fret.val.returned[Len(fret.val.returned)].rows) = Len(matched[1])
    => Offending(fret.val.returned[Len(fret.val.returned)], Len(matched[1]))
           = Range(fret.val.msg.args)

\* the columns of the table of an extractor of the module, in its order
ColumnsOf(name) ==
    CASE name = "asynchrony_feature" ->
            <<"delta", "pitch_cor", "vel_cor", "pitch_vel_cor", "voice_std">>
      [] name = "dynamics_feature" ->
            <<"agreement", "consistency_std", "ramp_cor", "tempo_cor">>
      [] name = "articulation_feature" -> <<"kor", "kot">>
      [] name = "pedal_feature" ->
            <<"onset_value", "offset_value", "to_prev_release", "to_next_release",
              "average_pedal", "pedal_coverage">>
      [] OTHER -> <<"rubato_w", "rubato_q">>

\* the extractors a request names, in the order it names them
Requested(feature_functions) ==
    IF feature_functions.kind = "str"
    THEN <<StrE("articulation_feature"), StrE("asynchrony_feature"),
           StrE("dynamics_feature"), StrE("pedal_feature"), StrE("phrasing_feature")>>
    ELSE SelectSeq(feature_functions.items, LAMBDA e : e.kind \in {"str", "function"})

\* the columns an extractor contributes, each as (extractor, column)
Contribution(e) ==
    LET own == IF e.kind = "str" THEN ColumnsOf(e.name)
               ELSE IF e.rows = "none" THEN <<>> ELSE e.cols
    IN  [k \in 1..Len(own) |-> <<e.name, own[k]>>]

RECURSIVE Contributions(_)
Contributions(es) ==
    IF es = <<>> THEN <<>> ELSE Contribution(Head(es)) \o Contributions(Tail(es))

\* C16: in the merged table every column is named
\* "<extractor name>.<column name>", and the columns are grouped by
\* extractor in the order the extractors were requested, each group in the
\* extractor's column order.
C16_ColumnOrder ==
    fret.op = "compute_performance_features" /\ fret.exc = "" =>
        fret.val.performance_features.names = Contributions(Requested(fret.arg))

\* a function object, then an extractor named by a string
C16_Witness ==
    /\ fret.op = "compute_performance_features"
    /\ fret.exc = ""
    /\ fret.val.calls = <<"my_feature", "asynchrony_feature">>
    /\ Len(fret.val.performance_features.names) = 7
    /\ fret.val.performance_features.names[2] = <<"my_feature", "b">>
    /\ fret.val.performance_features.names[3] = <<"asynchrony_feature", "delta">>

\* the other entries of the dict an extractor returns
ExtrasOf(e) ==
    IF e.kind = "function" THEN e.extras
    ELSE CASE e.name = "asynchrony_feature" -> {"no_cor_mask", "interval_mask"}
           [] e.name = "articulation_feature" -> {"no_kor_mask"}
           [] e.name = "dynamics_feature" -> {"avg_vel"}
           [] OTHER -> {}

\* the columns of the matched score
MatchedScoreColumns ==
    {"onset", "duration", "p_onset", "p_duration", "pitch", "velocity", "voice"}

\* C17 as stated: the returned table holds every requested extractor's
\* table and the matched score; the extra arrays are in a separate dict.
C17_MergedWithMatchedScore ==
    fret.op = "compute_performance_features" /\ fret.exc = "" =>
        LET o == fret.val
        IN  /\ \A e \in Range(Requested(fret.arg)) :
                   /\ Range(Contribution(e)) \subseteq Range(o.performance_features.names)
                   /\ ExtrasOf(e) \subseteq DOMAIN o.extra_returns
            /\ \A f \in MatchedScoreColumns :
                   \E c \in Range(o.performance_features.names) : c[2] = f

\* C17, amended: when the call returns, the returned table holds the
\* columns of every requested extractor's non-empty table, with their
\* values, and no other column; the matched score and the onset groups are
\* returned in the separate dict, with the extra arrays of every extractor.
C17_MergedTableAndExtras ==
    fret.op = "compute_performance_features" /\ fret.exc = "" =>
        LET o == fret.val
        IN  /\ \A e \in Range(Requested(fret.arg)) :
                   /\ Range(Contribution(e)) \subseteq Range(o.performance_features.names)
                   /\ ExtrasOf(e) \subseteq DOMAIN o.extra_returns
            /\ \A i \in 1..Len(o.returned) :
                   \A r \in 1..Len(o.returned[i].rows), c \in Range(o.returned[i].names) :
                       o.performance_features.rows[r][<<o.calls[i], c>>]
                           = o.returned[i].rows[r][c]
            /\ Range(o.performance_features.names)
                   = UNION {Range(Contribution(e)) : e \in Range(Requested(fret.arg))}
            /\ {"m_score", "unique_onset_idxs"} \subseteq DOMAIN o.extra_returns
            /\ o.extra_returns["m_score"] = matched[1]
            /\ o.extra_returns["unique_onset_idxs"] = matched[2]

\* articulation and a function object with an extra array have been merged
C17_Witness ==
    /\ fret.op = "compute_performance_features"
    /\ fret.exc = ""
    /\ fret.val.calls = <<"articulation_feature", "my_feature">>
    /\ {"no_kor_mask", "diag", "m_score"} \subseteq DOMAIN fret.val.extra_returns
    /\ Len(fret.val.performance_features.names) = 4
    /\ Len(fret.val.performance_features.rows) = 2

\* C18: feature_functions = "all" runs the module's functions whose names
\* end in "_feature" (articulation, asynchrony, dynamics, pedal, phrasing),
\* each once; any other value that is not a list raises TypeError before an
\* extractor runs.
C18_AllOrTypeError ==
    /\ fret.op = "list_performance_feats_functions" =>
           /\ Len(fret.val) = 5
           /\ Range(fret.val) = {"articulation_feature", "asynchrony_feature",
                                 "dynamics_feature", "pedal_feature",
                                 "phrasing_feature"}
    /\ fret.op = "compute_performance_features" /\ fret.arg.kind # "list" =>
           IF fret.arg.kind = "str" /\ fret.arg.s = "all"
           THEN /\ fret.exc = ""
                /\ Len(fret.val.calls) = 5
                /\ Range(fret.val.calls) = {"articulation_feature", "asynchrony_feature",
                                            "dynamics_feature", "pedal_feature",
                                            "phrasing_feature"}
           ELSE fret.exc = "TypeError" /\ fret.val.calls = <<>>

\* "all" has run the five extractors and merged their 19 columns
C18_Witness ==
    /\ fret.op = "compute_performance_features"
    /\ fret.arg.kind = "str"
    /\ fret.arg.s = "all"
    /\ Len(fret.val.calls) = 5
    /\ Len(fret.val.performance_features.names) = 19

\* the request without its elements that are neither a string nor a function
WithoutUnknown(feature_functions) ==
    Request("list", "", SelectSeq(feature_functions.items,
                                  LAMBDA bf : bf.kind \in {"str", "function"}))

\* C29: an element of feature_functions that is neither a string nor a
\* function is ignored: the call runs the extractors, and returns the table
\* and the extras or raises, as it does for the list without that element,
\* wherever the element stands in the list.
C29_UnknownElementIgnored ==
    /\ fret.op = "compute_performance_features"
    /\ fret.arg.kind = "list"
    /\ \E k \in 1..Len(fret.arg.items) : fret.arg.items[k].kind = "int"
    => /\ fret.val.exc # "UnboundLocalError"
       /\ fret.val.calls =
              compute_performance_features(matched[1], matched[2],
                                           WithoutUnknown(fret.arg)).calls
       /\ fret.val.performance_features =
              compute_performance_features(matched[1], matched[2],
                                           WithoutUnknown(fret.arg)).performance_features
       /\ fret.val.extra_returns =
              compute_performance_features(matched[1], matched[2],
                                           WithoutUnknown(fret.arg)).extra_returns

-----------------------------------------------------------------------------
(* MIDI import (partitura/io/importmidi.py) *)

\* a Python number: an int i (n = i, d = 1) or a float, the fraction n / d
PyInt(i) == [t |-> "int", n |-> i, d |-> 1]
PyFloat(n, d) == [t |-> "float", n |-> n, d |-> d]

\* the fraction n / d with a positive denominator
Positive(n, d) == IF d < 0 THEN [n |-> 0 - n, d |-> 0 - d] ELSE [n |-> n, d |-> d]

\* the integer below n / d, a stand-in for np.round that drops the fraction
np_floor(n, d) == Positive(n, d).n \div Positive(n, d).d

\* np.round(n / d): the nearest integer, the even one of two equally near
np_round(n, d) ==
    LET p == Positive(n, d)
        q == p.n \div p.d
        r == p.n % p.d
    IN  IF 2 * r < p.d THEN q
        ELSE IF 2 * r > p.d THEN q + 1
        ELSE IF q % 2 = 0 THEN q ELSE q + 1

\* quantize(v, unit): r = unit * np.round(v / unit), int(r) when unit is an
\* int and r itself, a float, otherwise; v / 0 raises
quantize(v, unit) ==
    IF unit.n = 0
    THEN [exc |-> "ZeroDivisionError", val |-> PyInt(0)]
    ELSE LET k == np_round(v.n * unit.d, v.d * unit.n)
         IN  [exc |-> "",
              val |-> IF unit.t = "int"
                      THEN PyInt(k * unit.n)
                      ELSE PyFloat(k * unit.n, unit.d)]

\* note_hash(channel, pitch)
note_hash(channel, pitch) == channel * 128 + pitch

\* a message of a track; time is the delta time in ticks
MidiMessage(type, time, channel, note, velocity, tempo) ==
    [type |-> type, time |-> time, channel |-> channel, note |-> note,
     velocity |-> velocity, tempo |-> tempo]

\* the tempo a file starts with, in microseconds per quarter
DefaultMpq == 500000

\* a dict without the key k
Without(dict, k) == [h \in DOMAIN dict \ {k} |-> dict[h]]
\* a dict with dict[k] = v
With(dict, k, v) == [h \in DOMAIN dict \cup {k} |-> IF h = k THEN v ELSE dict[h]]

\* what the loop of a loader has done with a message: the sounding notes
\* before and after it, the notes emitted so far, whether it warned
Step(msg, before, after, emitted, warned) ==
    [msg |-> msg, before |-> before, after |-> after, emitted |-> emitted,
     warned |-> warned]

\* the state of the loop of load_performance_midi before the first message;
\* t counts microseconds * ppq, so that t / (ppq * 10^6) is the time in seconds
PerformanceLoopStart ==
    [t |-> 0, ttick |-> 0, mpq |-> DefaultMpq, sounding_notes |-> <<>>,
     notes |-> <<>>, controls |-> <<>>, programs |-> <<>>, steps |-> <<>>]

\* the loop state st after a message that leaves the lists as they are
PerformanceSkip(st, msg, t, ttick, warned) ==
    [st EXCEPT !.t = t, !.ttick = ttick,
               !.steps = Append(@, Step(msg, st.sounding_notes, st.sounding_notes,
                                        Len(st.notes), warned))]

\* a stand-in for the end of a note that keeps the key in sounding_notes
PerformanceNoteEndKept(st, msg, t, ttick, note) ==
    [st EXCEPT !.t = t, !.ttick = ttick,
               !.notes = Append(@, [midi_pitch |-> msg.note,
                                    note_on |-> st.sounding_notes[note][1],
                                    note_on_tick |-> st.sounding_notes[note][2],
                                    note_off |-> t,
                                    note_off_tick |-> ttick,
                                    track |-> 0,
                                    channel |-> msg.channel,
                                    velocity |-> st.sounding_notes[note][3]]),
               !.steps = Append(@, Step(msg, st.sounding_notes, st.sounding_notes,
                                        Len(st.notes) + 1, FALSE))]

\* the end of a sounding note: notes.append(dict(...)) and
\* del sounding_notes[note]
PerformanceNoteEnd(st, msg, t, ttick, note) ==
    [st EXCEPT !.t = t, !.ttick = ttick,
               !.notes = Append(@, [midi_pitch |-> msg.note,
                                    note_on |-> st.sounding_notes[note][1],
                                    note_on_tick |-> st.sounding_notes[note][2],
                                    note_off |-> t,
                                    note_off_tick |-> ttick,
                                    track |-> 0,
                                    channel |-> msg.channel,
                                    velocity |-> st.sounding_notes[note][3]]),
               !.sounding_notes = Without(@, note),
               !.steps = Append(@, Step(msg, st.sounding_notes,
                                        Without(st.sounding_notes, note),
                                        Len(st.notes) + 1, FALSE))]

\* a stand-in for the warning that also forgets the notes that sound
PerformanceForget(st, msg, t, ttick) ==
    [st EXCEPT !.t = t, !.ttick = ttick, !.sounding_notes = <<>>,
               !.steps = Append(@, Step(msg, st.sounding_notes, <<>>,
                                        Len(st.notes), TRUE))]

\* the end of a note that does not sound: warnings.warn("ignoring MIDI
\* message ...") and continue
PerformanceIgnore(st, msg, t, ttick) == PerformanceSkip(st, msg, t, ttick, TRUE)

\* the note branch of the loop, t and ttick being the time of the message
PerformanceNote(st, msg, t, ttick, note) ==
    IF msg.type = "note_on" /\ msg.velocity > 0
    THEN [st EXCEPT !.t = t, !.ttick = ttick,
                    !.sounding_notes = With(@, note, <<t, ttick, msg.velocity>>),
                    !.steps = Append(@, Step(msg, st.sounding_notes,
                                             With(st.sounding_notes, note,
                                                  <<t, ttick, msg.velocity>>),
                                             Len(st.notes), FALSE))]
    ELSE IF msg.type = "note_off" \/ (msg.type = "note_on" /\ msg.velocity = 0)
    THEN IF note \notin DOMAIN st.sounding_notes
         THEN PerformanceIgnore(st, msg, t, ttick)
         ELSE PerformanceNoteEnd(st, msg, t, ttick, note)
    ELSE PerformanceSkip(st, msg, t, ttick, FALSE)

\* one pass of "for msg in track" of load_performance_midi
PerformanceMessage(st, msg, t, ttick) ==
    IF msg.type = "set_tempo"
    THEN [PerformanceSkip(st, msg, t, ttick, FALSE) EXCEPT !.mpq = msg.tempo]
    ELSE IF msg.type = "control_change"
    THEN [PerformanceSkip(st, msg, t, ttick, FALSE) EXCEPT
              !.controls = Append(@, [time |-> t, time_tick |-> ttick])]
    ELSE IF msg.type = "program_change"
    THEN [PerformanceSkip(st, msg, t, ttick, FALSE) EXCEPT
              !.programs = Append(@, [time |-> t, time_tick |-> ttick])]
    ELSE IF msg.type \notin {"note_on", "note_off"}
    THEN PerformanceSkip(st, msg, t, ttick, FALSE)
    ELSE PerformanceNote(st, msg, t, ttick, note_hash(msg.channel, msg.note))

RECURSIVE PerformanceLoop(_, _)
\* "for msg in track" of load_performance_midi, from the loop state st
PerformanceLoop(track, st) ==
    IF track = <<>> THEN st
    ELSE PerformanceLoop(Tail(track),
                         PerformanceMessage(st, Head(track),
                                            st.t + Head(track).time * st.mpq,
                                            st.ttick + Head(track).time))

\* the key notes.sort orders the notes by
NoteKey(x) == <<x.note_on, x.midi_pitch, x.note_off, x.channel, x.track>>

RECURSIVE TupleLess(_, _)
\* a < b for tuples of integers of one length
TupleLess(a, b) ==
    /\ a # <<>>
    /\ \/ Head(a) < Head(b)
       \/ Head(a) = Head(b) /\ TupleLess(Tail(a), Tail(b))

\* the index in notes of the k-th note of the sorted list; the sort is stable
SortedIndex(ns, k) ==
    CHOOSE i \in DOMAIN ns :
        Cardinality({j \in DOMAIN ns :
                        \/ TupleLess(NoteKey(ns[j]), NoteKey(ns[i]))
                        \/ NoteKey(ns[j]) = NoteKey(ns[i]) /\ j < i}) = k - 1

\* notes.sort(key=...) and the ids n0, n1, ... given in that order
SortedNotes(ns) ==
    [k \in DOMAIN ns |-> [note |-> ns[SortedIndex(ns, k)], id |-> k - 1]]

\* load_performance_midi(filename) for a file of one track: the notes of
\* its performed part, with the messages the loop went through
load_performance_midi(track) ==
    LET st == PerformanceLoop(track, PerformanceLoopStart)
    IN  [notes |-> SortedNotes(st.notes),
         controls |-> st.controls,
         sounding_notes |-> st.sounding_notes,
         steps |-> st.steps,
         part |-> Len(st.notes) > 0 \/ Len(st.controls) > 0 \/ Len(st.programs) > 0]

\* quantization_unit=None of load_score_midi
NoUnit == PyInt(0)

\* the messages the loop of load_score_midi looks at
relevant == {"time_signature", "key_signature", "set_tempo", "note_on", "note_off"}

\* the state of the loop of load_score_midi before the first message; notes
\* maps a channel to the list of its (onset, pitch, duration)
ScoreLoopStart ==
    [t_raw |-> 0, sounding_notes |-> <<>>, notes |-> <<>>, time_sigs |-> <<>>,
     global_tempos |-> <<>>, emitted |-> 0, steps |-> <<>>]

\* the loop state st after a message that leaves the notes as they are
ScoreSkip(st, msg, t_raw, warned) ==
    [st EXCEPT !.t_raw = t_raw,
               !.steps = Append(@, Step(msg, st.sounding_notes, st.sounding_notes,
                                        st.emitted, warned))]

\* notes[channel].append(x) on a defaultdict(list)
AppendTo(dict, channel, x) ==
    With(dict, channel,
         IF channel \in DOMAIN dict THEN Append(dict[channel], x) ELSE <<x>>)

\* the end of a note that does not sound: warnings.warn("ignoring MIDI
\* message ...") and continue
ScoreIgnore(st, msg, t_raw) == ScoreSkip(st, msg, t_raw, TRUE)

\* the note branch of the loop, t being the time of the message
ScoreNote(st, msg, t_raw, t, note) ==
    IF msg.type = "note_on" /\ msg.velocity > 0
    THEN [st EXCEPT !.t_raw = t_raw,
                    !.sounding_notes = With(@, note, <<t, msg.velocity>>),
                    !.steps = Append(@, Step(msg, st.sounding_notes,
                                             With(st.sounding_notes, note,
                                                  <<t, msg.velocity>>),
                                             st.emitted, FALSE))]
    ELSE IF msg.type = "note_off" \/ (msg.type = "note_on" /\ msg.velocity = 0)
    THEN IF note \notin DOMAIN st.sounding_notes
         THEN ScoreIgnore(st, msg, t_raw)
         ELSE [st EXCEPT !.t_raw = t_raw,
                         !.notes = AppendTo(@, msg.channel,
                                            <<st.sounding_notes[note][1], msg.note,
                                              t - st.sounding_notes[note][1]>>),
                         !.emitted = @ + 1,
                         !.sounding_notes = Without(@, note),
                         !.steps = Append(@, Step(msg, st.sounding_notes,
                                                  Without(st.sounding_notes, note),
                                                  st.emitted + 1, FALSE))]
    ELSE ScoreSkip(st, msg, t_raw, FALSE)

\* one pass of "for msg in track" of load_score_midi, t_raw being the raw
\* time of the message and t its quantized time
ScoreMessage(st, msg, t_raw, t) ==
    IF msg.type \notin relevant
    THEN ScoreSkip(st, msg, t_raw, FALSE)
    ELSE IF msg.type = "set_tempo"
    THEN [ScoreSkip(st, msg, t_raw, FALSE) EXCEPT
              !.global_tempos = Append(@, <<t, msg.tempo>>)]
    ELSE IF msg.type = "time_signature"
    THEN [ScoreSkip(st, msg, t_raw, FALSE) EXCEPT !.time_sigs = Append(@, t)]
    ELSE IF msg.type = "key_signature"
    THEN ScoreSkip(st, msg, t_raw, FALSE)
    ELSE ScoreNote(st, msg, t_raw, t, note_hash(msg.channel, msg.note))

\* t of the loop: quantize(t_raw, quantization_unit) if quantization_unit
\* else t_raw
ScoreTime(t_raw, quantization_unit) ==
    IF quantization_unit.n # 0
    THEN quantize(PyInt(t_raw), quantization_unit).val.n
    ELSE t_raw

RECURSIVE ScoreLoop(_, _, _)
\* "for msg in track" of load_score_midi, from the loop state st
ScoreLoop(track, quantization_unit, st) ==
    IF track = <<>> THEN st
    ELSE ScoreLoop(Tail(track), quantization_unit,
                   ScoreMessage(st, Head(track), st.t_raw + Head(track).time,
                                ScoreTime(st.t_raw + Head(track).time,
                                          quantization_unit)))

\* load_score_midi(filename, quantization_unit=...) for a file of one
\* track, as far as notes_by_track_ch: the notes of the track by channel,
\* with the messages the loop went through
load_score_midi(track, quantization_unit) ==
    LET st == ScoreLoop(track, quantization_unit, ScoreLoopStart)
    IN  [notes_by_track_ch |-> st.notes,
         sounding_notes |-> st.sounding_notes,
         global_tempos |-> st.global_tempos,
         steps |-> st.steps]

(* The inputs and the steps of the MIDI import *)

\* the longest track
MaxMessages == 3

\* the messages of the tracks: two keys of one pitch on two channels, a
\* second velocity, a note-on with velocity 0, and messages that are not notes
MidiMessages ==
    {MidiMessage("note_on", 1, 0, 60, 64, 0),
     MidiMessage("note_on", 1, 0, 60, 100, 0),
     MidiMessage("note_off", 1, 0, 60, 0, 0),
     MidiMessage("note_off", 0, 0, 60, 0, 0),
     MidiMessage("note_on", 1, 0, 60, 0, 0),
     MidiMessage("note_on", 0, 1, 60, 64, 0),
     MidiMessage("note_off", 1, 1, 60, 0, 0),
     MidiMessage("control_change", 1, 0, 0, 0, 0),
     MidiMessage("set_tempo", 1, 0, 0, 0, 250000)}

Tracks == SeqsUpTo(MidiMessages, MaxMessages)

\* the units load_score_midi quantizes with: none, or two ticks
QuantizationUnits == {NoUnit, PyInt(2)}

\* the numbers and the units quantize is called with
QuantizeValues ==
    {PyFloat(n, 10) : n \in (0 - 45)..45 \cup {133}} \cup {PyInt(i) : i \in (0 - 3)..14}
QuantizeUnits == {PyInt(4), PyInt(1), PyInt(0 - 2), PyFloat(1, 2), PyFloat(3, 2)}

\* quantize(v, unit)
Quantize(v, unit) ==
    /\ FeatFresh
    /\ fret' = Returned("quantize", <<v, unit>>, quantize(v, unit))
    /\ UNCHANGED <<m_score, unique_onset_idxs, matched, ran>>
    /\ OthersUntouched

\* load_performance_midi(filename), track being the track of the file
LoadPerformanceMidi(track) ==
    /\ FeatFresh
    /\ fret' = [op |-> "load_performance_midi", arg |-> <<track>>, exc |-> "",
                val |-> load_performance_midi(track)]
    /\ UNCHANGED <<m_score, unique_onset_idxs, matched, ran>>
    /\ OthersUntouched

\* load_score_midi(filename, quantization_unit), track being the track of
\* the file
LoadScoreMidi(track, quantization_unit) ==
    /\ FeatFresh
    /\ fret' = [op |-> "load_score_midi", arg |-> <<track, quantization_unit>>,
                exc |-> "", val |-> load_score_midi(track, quantization_unit)]
    /\ UNCHANGED <<m_score, unique_onset_idxs, matched, ran>>
    /\ OthersUntouched

NextMidi ==
    \/ \E v \in OnceOnly(FeatFresh, QuantizeValues), unit \in QuantizeUnits :
           Quantize(v, unit)
    \/ \E track \in OnceOnly(FeatFresh, Tracks) : LoadPerformanceMidi(track)
    \/ \E track \in OnceOnly(FeatFresh, Tracks),
          quantization_unit \in QuantizationUnits :
           LoadScoreMidi(track, quantization_unit)

SpecMidi == InitFeat /\ [][NextMidi]_vars

(* Properties of the MIDI import, under SpecMidi *)

\* |i|
Magnitude(i) == IF i < 0 THEN 0 - i ELSE i

\* r = k * unit for an integer k
MultipleOf(r, unit) == (Magnitude(r.n) * unit.d) % (Magnitude(unit.n) * r.d) = 0

\* no multiple of unit is nearer to v than r, a multiple of unit, is:
\* 2 * |r - v| <= |unit|
NearestTo(r, v, unit) ==
    2 * Magnitude(r.n * v.d - v.n * r.d) * unit.d <= Magnitude(unit.n) * r.d * v.d

\* C26: quantize(v, unit) returns the multiple of unit nearest to v, an int
\* when unit is an int and a float when it is not; quantize(13.3, 4) is 12
\* and quantize(3.3, 0.5) is 3.5.
C26_Quantize ==
    fret.op = "quantize" /\ fret.arg[2].n # 0
    => /\ fret.exc = ""
       /\ MultipleOf(fret.val.val, fret.arg[2])
       /\ NearestTo(fret.val.val, fret.arg[1], fret.arg[2])
       /\ fret.val.val.t = fret.arg[2].t
       /\ fret.val.val.t = "int" => fret.val.val.d = 1
       /\ fret.arg = <<PyFloat(133, 10), PyInt(4)>> => fret.val.val = PyInt(12)
       /\ fret.arg = <<PyFloat(33, 10), PyFloat(1, 2)>>
          => fret.val.val.n * 2 = 7 * fret.val.val.d

C26_Witness ==
    /\ fret.op = "quantize"
    /\ fret.arg = <<PyFloat(133, 10), PyInt(4)>>
    /\ fret.val.val = PyInt(12)

\* a number half way between two multiples goes to the even one
C26_WitnessHalfWay ==
    /\ fret.op = "quantize"
    /\ fret.arg = <<PyInt(10), PyInt(4)>>
    /\ fret.val.val = PyInt(8)

\* the track and the notes of the last call of a loader
LoadedTrack == fret.arg[1]
LoaderCalled == fret.op \in {"load_performance_midi", "load_score_midi"}

\* the notes a loader makes of a track, called as the last call was
NotesOf(track) ==
    IF fret.op = "load_performance_midi"
    THEN load_performance_midi(track).notes
    ELSE load_score_midi(track, fret.arg[2]).notes_by_track_ch

\* the k-th message ends a note: a note-off, or a note-on with velocity 0
EndsNote(track, k) ==
    \/ track[k].type = "note_off"
    \/ track[k].type = "note_on" /\ track[k].velocity = 0

\* the k-th message ends a note that does not sound when it arrives
Unpaired(k) ==
    /\ EndsNote(LoadedTrack, k)
    /\ note_hash(LoadedTrack[k].channel, LoadedTrack[k].note)
           \notin DOMAIN fret.val.steps[k].before

\* the track with a message that is no note, and takes as long, in place of
\* the k-th
Muted(track, k) ==
    [track EXCEPT ![k] = MidiMessage("text", track[k].time, 0, 0, 0, 0)]

\* C27: in load_performance_midi and load_score_midi the end of a note (a
\* note-off, or a note-on with velocity 0) for a key that does not sound is
\* dropped with a warning: no note is emitted for it, the sounding notes stay
\* as they were, every later message is processed, and the notes are those
\* of the track without the message.
C27_UnpairedNoteOffDropped ==
    LoaderCalled
    => /\ fret.exc = ""
       /\ Len(fret.val.steps) = Len(LoadedTrack)
       /\ \A k \in DOMAIN LoadedTrack :
              /\ fret.val.steps[k].msg = LoadedTrack[k]
              /\ Unpaired(k)
                 => /\ fret.val.steps[k].warned
                    /\ fret.val.steps[k].after = fret.val.steps[k].before
                    /\ fret.val.steps[k].emitted =
                           (IF k = 1 THEN 0 ELSE fret.val.steps[k - 1].emitted)
                    /\ NotesOf(LoadedTrack) = NotesOf(Muted(LoadedTrack, k))

\* an unpaired note-off, then a note that is emitted
C27_Witness ==
    /\ fret.op = "load_performance_midi"
    /\ Len(LoadedTrack) = 3
    /\ Unpaired(1)
    /\ LoadedTrack[1].type = "note_off"
    /\ fret.val.steps[1].warned
    /\ Len(fret.val.notes) = 1

\* a note-on with velocity 0 for a key that another channel sounds, in
\* load_score_midi
C27_WitnessScore ==
    /\ fret.op = "load_score_midi"
    /\ Len(LoadedTrack) = 3
    /\ Unpaired(2)
    /\ LoadedTrack[2].type = "note_on"
    /\ fret.val.steps[2].warned
    /\ fret.val.steps[2].before # <<>>
    /\ fret.val.steps[3].emitted = 1

\* the k-th message starts a note: a note-on with a velocity above 0
StartsNote(track, k) == track[k].type = "note_on" /\ track[k].velocity > 0

\* the (channel, pitch) of the k-th message
KeyOf(track, k) == <<track[k].channel, track[k].note>>

\* the tempo in force when the k-th message arrives
MpqBefore(track, k) ==
    LET tempos == {i \in 1..(k - 1) : track[i].type = "set_tempo"}
    IN  IF tempos = {} THEN DefaultMpq ELSE track[SetMax(tempos)].tempo

RECURSIVE TimeAt(_, _)
\* the time of the k-th message, in the unit of t, and its time in ticks
TimeAt(track, k) ==
    IF k = 0 THEN 0
    ELSE TimeAt(track, k - 1) + track[k].time * MpqBefore(track, k)

RECURSIVE TickAt(_, _)
TickAt(track, k) == IF k = 0 THEN 0 ELSE TickAt(track, k - 1) + track[k].time

\* the k-th message ends the note the j-th started: the j-th is the most
\* recent note-on of the key before k, and nothing ended the key in between
Pairs(track) ==
    {jk \in (DOMAIN track) \X (DOMAIN track) :
        /\ jk[1] < jk[2]
        /\ StartsNote(track, jk[1])
        /\ EndsNote(track, jk[2])
        /\ KeyOf(track, jk[1]) = KeyOf(track, jk[2])
        /\ \A i \in (jk[1] + 1)..(jk[2] - 1) :
               KeyOf(track, i) = KeyOf(track, jk[1])
               => ~StartsNote(track, i) /\ ~EndsNote(track, i)}

\* the note of the pair (j, k): the onset and the velocity of the j-th
\* message, the offset of the k-th
PairedNote(track, j, k) ==
    [midi_pitch |-> track[k].note,
     note_on |-> TimeAt(track, j),
     note_on_tick |-> TickAt(track, j),
     note_off |-> TimeAt(track, k),
     note_off_tick |-> TickAt(track, k),
     track |-> 0,
     channel |-> track[k].channel,
     velocity |-> track[j].velocity]

\* the note-ons no later message of their key follows
StillSounding(track) ==
    {j \in DOMAIN track :
        /\ StartsNote(track, j)
        /\ \A i \in (j + 1)..Len(track) :
               KeyOf(track, i) = KeyOf(track, j)
               => ~StartsNote(track, i) /\ ~EndsNote(track, i)}

\* C28: load_performance_midi emits one note for each note-off (or note-on
\* with velocity 0) that follows a pending note-on of its (channel, pitch),
\* and no other note: the note has the onset and the velocity of the most
\* recent such note-on and the offset of the note-off, note_off >= note_on;
\* a note-on is in at most one note, a note-on of a sounding key replaces the
\* pending one, and the keys that sound at the end of the track emit nothing.
C28_NotePairing ==
    fret.op = "load_performance_midi"
    => /\ Len(fret.val.notes) = Cardinality(Pairs(LoadedTrack))
       /\ \A x \in DOMAIN fret.val.notes :
              /\ fret.val.notes[x].note.note_off >= fret.val.notes[x].note.note_on
              /\ Cardinality({y \in DOMAIN fret.val.notes :
                                 fret.val.notes[y].note = fret.val.notes[x].note})
                 = Cardinality({jk \in Pairs(LoadedTrack) :
                                   PairedNote(LoadedTrack, jk[1], jk[2])
                                       = fret.val.notes[x].note})
       /\ \A jk \in Pairs(LoadedTrack), il \in Pairs(LoadedTrack) :
              jk[1] = il[1] => jk = il
       /\ DOMAIN fret.val.sounding_notes =
              {note_hash(LoadedTrack[j].channel, LoadedTrack[j].note) :
                  j \in StillSounding(LoadedTrack)}

\* a key is struck twice, then released: one note, of the second note-on
C28_Witness ==
    /\ fret.op = "load_performance_midi"
    /\ Len(LoadedTrack) = 3
    /\ StartsNote(LoadedTrack, 1) /\ LoadedTrack[1].velocity = 64
    /\ StartsNote(LoadedTrack, 2) /\ LoadedTrack[2].velocity = 100
    /\ KeyOf(LoadedTrack, 1) = KeyOf(LoadedTrack, 2)
    /\ Pairs(LoadedTrack) = {<<2, 3>>}
    /\ Len(fret.val.notes) = 1
    /\ fret.val.notes[1].note.velocity = 100
    /\ fret.val.notes[1].note.note_on_tick = 2

\* a note is emitted and another key still sounds when the track ends
C28_WitnessStillSounding ==
    /\ fret.op = "load_performance_midi"
    /\ Len(fret.val.notes) = 1
    /\ fret.val.notes[1].note.note_off = fret.val.notes[1].note.note_on
    /\ DOMAIN fret.val.sounding_notes # {}

====
